---- MODULE Spec2Model ----
(***************************************************************************)
(* NYC Airbnb dashboard: the DataManager of qt_app/core/data_manager.py    *)
(* (load, clean and derive, filter, query, export) and its DataLoader      *)
(* thread, as a state machine.                                             *)
(*                                                                         *)
(* A DataFrame is a sequence of rows (records); each row carries its       *)
(* pandas index label in the field idx.  DataFrame objects live in `heap`, *)
(* and self.df / self.filtered_df are references into it, so that "the     *)
(* same object" and "an equal copy" are different things, as in Python.    *)
(***************************************************************************)
EXTENDS Integers, Sequences, FiniteSets, TLC

VARIABLES
    disk,         \* the CSV files on disk, by path (never written by the model)
    df,           \* DataManager.df: None or a reference into heap
    filtered_df,  \* DataManager.filtered_df: None or a reference into heap
    columns,      \* the columns of the frame self.df refers to (a view has the same)
    heap,         \* the live DataFrame objects: reference -> sequence of rows
    _filters,     \* DataManager._filters: the dict given to the last apply_filters
    signals,      \* the DataManager signals emitted by the last handler, in order
    last,         \* the handler that ran last
    raised,       \* whether that handler raised an exception to its caller
    ret,          \* what that handler returned (a query's result), or None
    loaders,      \* the DataLoader threads started so far, in order
    events,       \* the main thread's queue of finished-signal deliveries
    panel,        \* the FilterPanel's controls
    timer,        \* FilterPanel._filter_debounce_timer: 0 when inactive, else the ticks left
    quiet,        \* the ticks since a filter control last changed (history, capped)
    unreported,   \* whether a control changed since filters_changed was last emitted (history)
    emitted,      \* the FilterPanel signals emitted by the last step, in order
    overlay,      \* whether MainWindow.loading_overlay is shown
    pending       \* the MainWindow's single-shot timers that have not fired, in order

widgets == <<panel, timer, quiet, unreported, emitted, overlay, pending>>

vars ==
    <<disk, df, filtered_df, columns, heap, _filters, signals, last, raised, ret, loaders,
      events, widgets>>

----------------------------------------------------------------------------
(* Bounds of the model *)

\* the longest CSV file (data rows) that is put on disk
MaxRows == 2

\* the most DataLoader threads started in one behaviour
MaxLoaders == 1

----------------------------------------------------------------------------
(* Values *)

None == "<None>"

\* a missing cell (NaN / NaT): the empty sequence; a present cell v: <<v>>
NaN == <<>>
Cell(v) == <<v>>
isnull(c) == c = NaN
notnull(c) == c # NaN

\* pandas comparisons of a nullable numeric cell with a number: NaN compares False
cell_ge(c, n) == notnull(c) /\ c[1] >= n
cell_le(c, n) == notnull(c) /\ c[1] <= n

\* the dict with no keys
EmptyDict == [k \in {} |-> TRUE]

\* a float kept exactly, as a fraction
Frac(n, d) == [num |-> n, den |-> d]

----------------------------------------------------------------------------
(* Program constants of process_dataframe *)

PriceLow == 10
PriceHigh == 1000
MaxMinimumNights == 31
CommercialAvailability == 300
CommercialListings == 5
ValueScoreScale == 100
PracticalStayNights == 7

\* pd.cut(x, bins, labels): right-closed bins (b[i], b[i+1]]; outside every bin: NaN.
\* A last edge of float('inf') is written by leaving it out: a bin list as long as
\* the label list has its last bin open-ended.
InBin(x, bins, i) == x > bins[i] /\ (i + 1 > Len(bins) \/ x <= bins[i + 1])
cut(x, bins, labels) ==
    LET hit == {i \in 1..Len(labels) : InBin(x, bins, i)}
    IN  IF hit = {} THEN NaN ELSE Cell(labels[CHOOSE i \in hit : TRUE])

PriceBins == <<0, 50, 100, 200, 500, 1000>>
PriceLabels == <<"Budget ($0-50)", "Economy ($50-100)", "Mid-range ($100-200)",
                 "Upscale ($200-500)", "Luxury ($500+)">>
HostBins == <<0, 1, 5, 10>>
HostLabels == <<"Single (1)", "Small (2-5)", "Medium (6-10)", "Mega (10+)">>

\* pd.to_datetime(errors='coerce') of one cell: a well-formed <<y, m, d>> is kept,
\* anything else becomes NaT
to_datetime(c) ==
    IF notnull(c) /\ Len(c[1]) = 3 /\ c[1][2] \in 1..12 /\ c[1][3] \in 1..31
    THEN c ELSE NaN

\* the columns process_dataframe indexes by name; a missing one raises KeyError
AccessedColumns ==
    {"price", "minimum_nights", "latitude", "longitude", "last_review",
     "availability_365", "calculated_host_listings_count", "host_id",
     "number_of_reviews"}

\* df['host_id'].value_counts() looked up for one host
value_counts(rows, h) == Cardinality({i \in DOMAIN rows : rows[i].host_id = h})

\* a mutant: the availability bound taken inclusive
is_commercial_inclusive(r) ==
    \/ r.availability_365 >= CommercialAvailability
    \/ r.calculated_host_listings_count > CommercialListings

\* commercial listing flag (availability > 300 OR host listings > 5)
is_commercial(r) ==
    \/ r.availability_365 > CommercialAvailability
    \/ r.calculated_host_listings_count > CommercialListings

\* the derived columns of one surviving row; `kept` is the cleaned frame
derive(r, kept) ==
    LET lr  == to_datetime(r.last_review)
        hlc == value_counts(kept, r.host_id)
    IN  [idx |-> r.idx, id |-> r.id, name |-> r.name, host_id |-> r.host_id,
         host_name |-> r.host_name,
         neighbourhood_group |-> r.neighbourhood_group,
         neighbourhood |-> r.neighbourhood,
         latitude |-> r.latitude, longitude |-> r.longitude,
         room_type |-> r.room_type, price |-> r.price,
         minimum_nights |-> r.minimum_nights,
         number_of_reviews |-> r.number_of_reviews,
         reviews_per_month |-> r.reviews_per_month,
         calculated_host_listings_count |-> r.calculated_host_listings_count,
         availability_365 |-> r.availability_365,
         last_review |-> lr,
         review_month |-> IF isnull(lr) THEN "NaT" ELSE <<lr[1][1], lr[1][2]>>,
         review_year |-> IF isnull(lr) THEN NaN ELSE Cell(lr[1][1]),
         is_commercial |-> is_commercial(r),
         price_category |-> cut(r.price[1], PriceBins, PriceLabels),
         host_listing_count |-> hlc,
         host_size |-> cut(hlc, HostBins, HostLabels),
         host_category |-> cut(r.calculated_host_listings_count, HostBins, HostLabels),
         value_score |-> Frac(r.number_of_reviews * ValueScoreScale, r.price[1] + 1),
         estimated_annual_revenue |-> Frac(r.price[1] * r.availability_365 * 7, 10)]

\* a mutant: the upper price bound forgotten
price_in_range_no_upper(r) == cell_ge(r.price, PriceLow)

\* the three cleaning steps, in the code's order
price_in_range(r) == cell_ge(r.price, PriceLow) /\ cell_le(r.price, PriceHigh)
nights_in_range(r) == r.minimum_nights < MaxMinimumNights
dropna_ok(r) == notnull(r.latitude) /\ notnull(r.longitude) /\ notnull(r.price)

clean(rows) ==
    SelectSeq(SelectSeq(SelectSeq(rows, price_in_range), nights_in_range), dropna_ok)

\* the columns process_dataframe adds or rewrites
DerivedColumns ==
    {"last_review", "review_month", "review_year", "is_commercial", "price_category",
     "host_listing_count", "host_size", "host_category", "value_score",
     "estimated_annual_revenue"}

\* a DataFrame as a value: its columns and its rows (a row's fields of other columns
\* are never read)
Frame(cols, rows) == [columns |-> cols, rows |-> rows]

\* process_dataframe raises KeyError at the first column it indexes that is missing
schema_ok(file) == AccessedColumns \subseteq file.columns

\* DataManager.process_dataframe on a parsed file: the new frame, or an exception
process_dataframe(file) ==
    IF ~schema_ok(file)
    THEN [raised |-> TRUE, frame |-> Frame({}, <<>>)]
    ELSE LET kept == clean(file.rows)
         IN  [raised |-> FALSE,
              frame |-> Frame(file.columns \cup DerivedColumns,
                              [i \in DOMAIN kept |-> derive(kept[i], kept)])]

\* pd.read_csv: raises on an unreadable path, else the rows with a RangeIndex
read_csv(file) ==
    IF ~file.readable
    THEN [raised |-> TRUE, file |-> file]
    ELSE [raised |-> FALSE,
          file |-> [file EXCEPT !.rows = [i \in DOMAIN file.rows |->
                                             [file.rows[i] EXCEPT !.idx = i - 1]]]]

----------------------------------------------------------------------------
(* The CSV files the behaviours start from *)

AllColumns ==
    {"id", "name", "host_id", "host_name", "neighbourhood_group", "neighbourhood",
     "latitude", "longitude", "room_type", "price", "minimum_nights",
     "number_of_reviews", "last_review", "reviews_per_month",
     "calculated_host_listings_count", "availability_365"}

\* one raw CSV row; idx is set by read_csv
RawRow(id, host, ng, n, rt, price, nights, reviews, listings, avail) ==
    [idx |-> 0, id |-> id, name |-> Cell("listing"), host_id |-> host,
     host_name |-> Cell("host"), neighbourhood_group |-> ng, neighbourhood |-> n,
     latitude |-> Cell(40), longitude |-> Cell(74), room_type |-> rt,
     price |-> price, minimum_nights |-> nights, number_of_reviews |-> reviews,
     last_review |-> Cell(<<2019, 5, 21>>), reviews_per_month |-> Cell(1),
     calculated_host_listings_count |-> listings, availability_365 |-> avail]

\* rows that survive cleaning, chosen so that every filter clause keeps some and
\* drops others, with the boundary values of the cleaning and commercial rules
RowA == RawRow(1, 1, "Manhattan", "Harlem", "Entire home/apt", Cell(120), 2, 10, 1, 100)
RowB == [RawRow(2, 2, "Manhattan", "SoHo", "Private room", Cell(60), 30, 0, 6, 300)
            EXCEPT !.last_review = NaN, !.reviews_per_month = NaN]
RowC == [RawRow(3, 1, "Brooklyn", "Williamsburg", "Private room", Cell(1000), 7, 5, 5, 301)
            EXCEPT !.last_review = Cell(<<2018, 12, 31>>)]
RowD == RawRow(4, 3, "Brooklyn", "Williamsburg", "Entire home/apt", Cell(10), 1, 3, 5, 300)

\* a row of the segment of RowA, with the same reviews per dollar as RowA
RowE == RawRow(11, 2, "Manhattan", "Harlem", "Entire home/apt", Cell(241), 3, 20, 1, 100)

\* a listing whose name is a numeral, in a private room in Manhattan
RowN == [RawRow(12, 3, "Manhattan", "SoHo", "Private room", Cell(80), 2, 4, 1, 100)
            EXCEPT !.name = Cell("101")]

\* a listing without a name
RowNoName == [RawRow(13, 3, "Manhattan", "SoHo", "Private room", Cell(90), 2, 4, 0, 100)
                 EXCEPT !.name = NaN]

\* a listing of a host who reports eleven listings
RowMega == RawRow(14, 4, "Brooklyn", "Williamsburg", "Private room", Cell(70), 2, 4, 11, 100)

\* rows that cleaning drops
RowCheap == RawRow(5, 1, "Manhattan", "Harlem", "Entire home/apt", Cell(5), 2, 10, 1, 100)
RowDear == RawRow(6, 2, "Manhattan", "SoHo", "Private room", Cell(1001), 2, 1, 1, 10)
RowNoPrice == RawRow(7, 3, "Brooklyn", "Williamsburg", "Private room", NaN, 2, 1, 1, 10)
RowLongStay == RawRow(8, 1, "Manhattan", "Harlem", "Entire home/apt", Cell(120), 31, 4, 6, 310)
RowNoLat == [RowA EXCEPT !.id = 9, !.latitude = NaN]
RowNoLon == [RowC EXCEPT !.id = 10, !.longitude = NaN]

ValidRows == {RowA, RowB, RowC, RowD}
DroppedRows == {RowCheap, RowDear, RowNoPrice, RowLongStay, RowNoLat, RowNoLon}

\* the sequences of at most n distinct elements of S
SeqsUpTo(S, n) ==
    UNION {{q \in [1..k -> S] : \A i, j \in 1..k : q[i] = q[j] => i = j} : k \in 0..n}

Csv(rows) == [readable |-> TRUE, columns |-> AllColumns, rows |-> rows]

\* the files the filter behaviours load
FilterFiles == {Csv(rows) : rows \in SeqsUpTo(ValidRows, MaxRows)}

\* the files the cleaning behaviours load: every kind of dropped row
CleaningFiles ==
    {Csv(rows) : rows \in SeqsUpTo(DroppedRows \cup {RowB, RowC, RowD}, MaxRows)}

\* the files the loader behaviours start from
LoaderFiles == {Csv(<<RowA, RowC>>), Csv(<<RowC>>), Csv(<<RowCheap>>)}

\* the files the schema behaviours load: the complete file, and the file without one
\* of its columns, for every column
SchemaFiles ==
    {Csv(<<RowA, RowC>>)}
    \cup {[Csv(<<RowA, RowC>>) EXCEPT !.columns = AllColumns \ {c}] : c \in AllColumns}

\* the columns of the export that a file can lack and still load
OptionalExportColumns == {"name", "neighbourhood_group", "neighbourhood", "room_type"}

\* the files the export behaviours load: a name column holds text, so a file with the
\* numeral-named listing has a listing with a name of letters too
ExportFiles ==
    LET named == {Csv(rows) : rows \in SeqsUpTo({RowA, RowB, RowNoName}, MaxRows)}
                 \cup {Csv(<<RowA, RowN>>), Csv(<<RowN, RowA>>)}
    IN  named \cup {[file EXCEPT !.columns = AllColumns \ {c}] :
                        file \in {Csv(<<RowA, RowB>>)}, c \in OptionalExportColumns}

\* the files the missing-data behaviours load: listings with and without a name, a
\* last review and a review rate, in views of up to three rows, and files without a
\* key column
MissingFiles ==
    {Csv(rows) : rows \in SeqsUpTo({RowA, RowB, RowNoName}, MaxRows + 1)}
    \cup {[Csv(<<RowB, RowNoName>>) EXCEPT !.columns = AllColumns \ {c}] :
              c \in {"name", "host_name", "reviews_per_month"}}

\* the files the host behaviours load: hosts whose reported listing count differs from
\* the number of their rows, one of whose rows cleaning drops
HostFiles ==
    {Csv(rows) :
        rows \in SeqsUpTo({RowA, RowB, RowC, RowCheap, RowMega, RowNoName}, MaxRows)}

\* the other paths: a good file, a missing file, a file without a price column
OtherDisk ==
    [other_csv |-> Csv(<<RowB, RowD>>),
     missing_csv |-> [readable |-> FALSE, columns |-> {}, rows |-> <<>>],
     no_price_csv |-> [readable |-> TRUE, columns |-> AllColumns \ {"price"},
                       rows |-> <<RowA>>]]

Paths == {"AB_NYC_2019_csv"} \cup DOMAIN OtherDisk

----------------------------------------------------------------------------
(* Filter dicts *)

FilterKeys ==
    {"neighbourhood_group", "neighbourhood", "room_type", "price_range",
     "min_nights", "min_reviews", "host_category", "commercial_only"}

\* a filter value that restricts nothing
WideValue(k) ==
    CASE k = "neighbourhood_group" -> {"Manhattan", "Brooklyn", "Bronx"}
      [] k = "neighbourhood" -> "all"
      [] k = "room_type" -> {"Entire home/apt", "Private room", "Shared room"}
      [] k = "price_range" -> <<10, 1000>>
      [] k = "min_nights" -> 30
      [] k = "min_reviews" -> 0
      [] k = "host_category" -> "all"
      [] k = "commercial_only" -> FALSE

\* a tighter value of each field
TightValue(k) ==
    CASE k = "neighbourhood_group" -> {"Manhattan"}
      [] k = "neighbourhood" -> "Williamsburg"
      [] k = "room_type" -> {"Private room"}
      [] k = "price_range" -> <<50, 150>>
      [] k = "min_nights" -> 7
      [] k = "min_reviews" -> 5
      [] k = "host_category" -> "Small (2-5)"
      [] k = "commercial_only" -> TRUE

\* an empty value of each field that has one ([] , '' or None)
EmptyValues(k) ==
    CASE k = "neighbourhood_group" -> {{}}
      [] k = "neighbourhood" -> {"", None}
      [] k = "room_type" -> {{}}
      [] k = "host_category" -> {"", None}
      [] OTHER -> {}

\* a value of each field that no row of the model has
AbsentValue(k) ==
    CASE k = "neighbourhood_group" -> {"Bronx"}
      [] k = "neighbourhood" -> "Riverdale"
      [] k = "room_type" -> {"Shared room"}
      [] k = "price_range" -> <<200, 300>>
      [] k = "min_nights" -> 0
      [] k = "min_reviews" -> 50
      [] k = "host_category" -> "Mega (10+)"
      [] k = "commercial_only" -> TRUE

WideSpec == [k \in FilterKeys |-> WideValue(k)]
With(spec, k, v) == [j \in DOMAIN spec \cup {k} |-> IF j = k THEN v ELSE spec[j]]
Without(spec, k) == [j \in DOMAIN spec \ {k} |-> spec[j]]

\* the dicts the filter behaviours apply: the wide one; one or two fields tightened;
\* one field missing, empty or matching nothing; no field at all; every field tight
FilterSpecs ==
    {WideSpec, EmptyDict, [k \in FilterKeys |-> TightValue(k)]}
    \cup {With(WideSpec, k, TightValue(k)) : k \in FilterKeys}
    \cup {With(With(WideSpec, k, TightValue(k)), j, TightValue(j)) : k, j \in FilterKeys}
    \cup {Without(WideSpec, k) : k \in FilterKeys}
    \cup UNION {{With(WideSpec, k, v) : v \in EmptyValues(k)} : k \in FilterKeys}
    \cup {With(WideSpec, "neighbourhood_group", {"Bronx"}),
          With(With(WideSpec, "neighbourhood_group", {"Manhattan"}),
               "price_range", <<200, 300>>)}

\* the few dicts the other behaviours apply
FewSpecs ==
    {WideSpec, EmptyDict,
     With(WideSpec, "neighbourhood_group", {"Manhattan"}),
     With(WideSpec, "room_type", {"Private room"}),
     With(WideSpec, "commercial_only", TRUE),
     With(WideSpec, "neighbourhood_group", {"Bronx"})}

\* the dicts the loader behaviours apply
LoaderSpecs ==
    {WideSpec, With(WideSpec, "neighbourhood_group", {"Manhattan"}),
     With(WideSpec, "neighbourhood_group", {"Bronx"})}

----------------------------------------------------------------------------
(* DataManager *)

\* the object a handler's result is built in, freed or renamed when it returns
Fresh == "new"

\* the DataManager's fields, as one value
Self ==
    [df |-> df, filtered_df |-> filtered_df, columns |-> columns, heap |-> heap,
     _filters |-> _filters]

deref(self, ref) == self.heap[ref]

\* when a handler returns, objects no field refers to are freed; the model then names
\* the base object "o1" and a view object that is not the base object "o2"
collect(self) ==
    IF self.df = None
    THEN [self EXCEPT !.heap = EmptyDict]
    ELSE IF self.filtered_df = self.df
    THEN [self EXCEPT !.df = "o1", !.filtered_df = "o1",
                      !.heap = "o1" :> deref(self, self.df)]
    ELSE IF self.filtered_df = None
    THEN [self EXCEPT !.df = "o1", !.heap = "o1" :> deref(self, self.df)]
    ELSE [self EXCEPT !.df = "o1", !.filtered_df = "o2",
                      !.heap = ("o1" :> deref(self, self.df))
                               @@ ("o2" :> deref(self, self.filtered_df))]

\* what a handler leaves: the manager, the signals it emitted, whether it raised,
\* what it returned
NoReturn == [kind |-> "None"]
Outcome(self, sigs, exc, result) ==
    [self |-> collect(self), signals |-> sigs, raised |-> exc, ret |-> result]

\* a mutant: only self.df is set
publish_base_only(self, frame) ==
    [self EXCEPT !.df = Fresh, !.columns = frame.columns,
                 !.heap = (Fresh :> frame.rows) @@ @]

\* the two assignments of _on_data_loaded and of load_data_sync
publish(self, frame) ==
    [self EXCEPT !.df = Fresh, !.filtered_df = Fresh, !.columns = frame.columns,
                 !.heap = Fresh :> frame.rows]

_on_data_loaded(self, frame) ==
    Outcome(publish(self, frame), <<"data_loaded">>, FALSE, NoReturn)

\* a mutant: the fields are cleared before the file is read
load_data_sync_clearing(self, file) ==
    LET parsed == read_csv(file)
        made == process_dataframe(parsed.file)
        cleared == [self EXCEPT !.df = None, !.filtered_df = None]
    IN  IF parsed.raised \/ made.raised
        THEN Outcome(cleared, <<>>, TRUE, NoReturn)
        ELSE Outcome(publish(self, made.frame), <<"data_loaded">>, FALSE, NoReturn)

\* DataManager.load_data_sync
load_data_sync(self, file) ==
    LET parsed == read_csv(file)
        made == process_dataframe(parsed.file)
    IN  IF parsed.raised \/ made.raised
        THEN Outcome(self, <<>>, TRUE, NoReturn)
        ELSE Outcome(publish(self, made.frame), <<"data_loaded">>, FALSE, NoReturn)

\* `key in filters`
has(filters, key) == key \in DOMAIN filters

\* mask &= clause
mask_and(mask, clause) == [i \in DOMAIN mask |-> mask[i] /\ clause[i]]

\* frame[mask]: a new frame of the rows whose mask is True, index labels kept
select(frame, mask) ==
    LET F[i \in 0..Len(frame)] ==
            IF i = 0 THEN <<>>
            ELSE IF mask[i] THEN Append(F[i - 1], frame[i]) ELSE F[i - 1]
    IN  F[Len(frame)]

\* Series == value, where the Series holds categories or NaN
cell_eq(c, v) == notnull(c) /\ c[1] = v

\* the eight filters of apply_filters: whether the `if` is taken, and the row test
borough_on(filters) ==
    has(filters, "neighbourhood_group") /\ filters["neighbourhood_group"] # {}
borough_clause(r, filters) == r.neighbourhood_group \in filters["neighbourhood_group"]

neighbourhood_on(filters) ==
    /\ has(filters, "neighbourhood")
    /\ filters["neighbourhood"] \notin {"", None}
    /\ filters["neighbourhood"] # "all"
neighbourhood_clause(r, filters) == r.neighbourhood = filters["neighbourhood"]

room_on(filters) == has(filters, "room_type") /\ filters["room_type"] # {}
room_clause(r, filters) == r.room_type \in filters["room_type"]

price_on(filters) == has(filters, "price_range")
price_clause(r, filters) ==
    /\ cell_ge(r.price, filters["price_range"][1])
    /\ cell_le(r.price, filters["price_range"][2])

nights_on(filters) == has(filters, "min_nights")
\* a mutant: the comparison turned round
nights_clause_reversed(r, filters) == r.minimum_nights >= filters["min_nights"]
nights_clause(r, filters) == r.minimum_nights <= filters["min_nights"]

reviews_on(filters) == has(filters, "min_reviews") /\ filters["min_reviews"] > 0
reviews_clause(r, filters) == r.number_of_reviews >= filters["min_reviews"]

host_on(filters) ==
    /\ has(filters, "host_category")
    /\ filters["host_category"] \notin {"", None}
    /\ filters["host_category"] # "all"
\* a mutant: the host filter reading host_size
host_clause_by_size(r, filters) == cell_eq(r.host_size, filters["host_category"])

host_clause(r, filters) == cell_eq(r.host_category, filters["host_category"])

commercial_on(filters) == has(filters, "commercial_only") /\ filters["commercial_only"]
commercial_clause(r, filters) == r.is_commercial = TRUE

\* apply_filters, the mask after the first three filters (lines 134-146)
location_mask(base, filters) ==
    LET m0 == [i \in DOMAIN base |-> TRUE]
        m1 == IF borough_on(filters)
              THEN mask_and(m0, [i \in DOMAIN base |-> borough_clause(base[i], filters)])
              ELSE m0
        m2 == IF neighbourhood_on(filters)
              THEN mask_and(m1, [i \in DOMAIN base |-> neighbourhood_clause(base[i], filters)])
              ELSE m1
        m3 == IF room_on(filters)
              THEN mask_and(m2, [i \in DOMAIN base |-> room_clause(base[i], filters)])
              ELSE m2
    IN  m3

\* the columns the first three filters index (the later five index columns that every
\* loaded frame has)
location_columns(filters) ==
    {c \in {"neighbourhood_group", "neighbourhood", "room_type"} :
        \/ c = "neighbourhood_group" /\ borough_on(filters)
        \/ c = "neighbourhood" /\ neighbourhood_on(filters)
        \/ c = "room_type" /\ room_on(filters)}

\* a mutant: the five later filters never reach the mask
filter_mask_location_only(base, filters) == location_mask(base, filters)

\* apply_filters, the mask after all eight filters (lines 134-170)
filter_mask(base, filters) ==
    LET m3 == location_mask(base, filters)
        m4 == IF price_on(filters)
              THEN mask_and(m3, [i \in DOMAIN base |-> price_clause(base[i], filters)])
              ELSE m3
        m5 == IF nights_on(filters)
              THEN mask_and(m4, [i \in DOMAIN base |-> nights_clause(base[i], filters)])
              ELSE m4
        m6 == IF reviews_on(filters)
              THEN mask_and(m5, [i \in DOMAIN base |-> reviews_clause(base[i], filters)])
              ELSE m5
        m7 == IF host_on(filters)
              THEN mask_and(m6, [i \in DOMAIN base |-> host_clause(base[i], filters)])
              ELSE m6
        m8 == IF commercial_on(filters)
              THEN mask_and(m7, [i \in DOMAIN base |-> commercial_clause(base[i], filters)])
              ELSE m7
    IN  m8

\* a mutant: filtering what is already filtered
filter_source_view(self) == self.filtered_df

\* the frame apply_filters builds its mask over and selects from: self.df
filter_source(self) == self.df

\* a mutant: the filters read from the field before it is set
mask_filters_stale(self, filters) == self._filters

\* the dict apply_filters reads its filters from: its argument
mask_filters(self, filters) == filters

\* a mutant: the previous view is not restored
finish_filtering_no_restore(self, previous_filtered) ==
    IF Len(deref(self, self.filtered_df)) = 0
    THEN Outcome(self, <<"filters_resulted_empty">>, FALSE, NoReturn)
    ELSE Outcome(self, <<"data_filtered">>, FALSE, NoReturn)

\* a mutant: the return after the empty signal is missing
finish_filtering_no_return(self, previous_filtered) ==
    IF Len(deref(self, self.filtered_df)) = 0
    THEN Outcome([self EXCEPT !.filtered_df = previous_filtered],
                 <<"filters_resulted_empty", "data_filtered">>, FALSE, NoReturn)
    ELSE Outcome(self, <<"data_filtered">>, FALSE, NoReturn)

\* apply_filters, lines 175-184: the empty check, the restore, the signal
finish_filtering(self, previous_filtered) ==
    IF Len(deref(self, self.filtered_df)) = 0
    THEN Outcome([self EXCEPT !.filtered_df = previous_filtered],
                 <<"filters_resulted_empty">>, FALSE, NoReturn)
    ELSE Outcome(self, <<"data_filtered">>, FALSE, NoReturn)

\* DataManager.apply_filters
apply_filters(self, filters) ==
    LET noted == [self EXCEPT !._filters = filters]
        previous_filtered == self.filtered_df
    IN  IF filter_source(self) = None
        THEN \* len(None): TypeError, after _filters was set
             Outcome(noted, <<>>, TRUE, NoReturn)
        ELSE IF ~(location_columns(mask_filters(self, filters)) \subseteq self.columns)
        THEN \* KeyError at line 138, 142 or 146, before the view is assigned
             Outcome(noted, <<>>, TRUE, NoReturn)
        ELSE LET base == deref(self, filter_source(self))
                 using == mask_filters(self, filters)
                 early == select(base, location_mask(base, using))
                 final == select(base, filter_mask(base, using))
                 at149 == [noted EXCEPT !.filtered_df = "line149",
                                        !.heap = @ @@ ("line149" :> early)]
                 at173 == [at149 EXCEPT !.filtered_df = Fresh,
                                        !.heap = @ @@ (Fresh :> final)]
             IN  finish_filtering(at173, previous_filtered)

----------------------------------------------------------------------------
(* Queries and export *)

\* frame['c'] of a column the frame does not have raises KeyError
lacks(self, cols) == ~(cols \subseteq self.columns)
KeyError(self) == Outcome(self, <<>>, TRUE, NoReturn)

\* pd.DataFrame(): the empty result
EmptyFrame == [kind |-> "frame", columns |-> <<>>, rows |-> <<>>]

\* a < b for fractions with positive denominators
frac_lt(a, b) == a.num * b.den < b.num * a.den

\* frame.nlargest(n, 'value_score'): descending, ties in row order (keep='first')
RECURSIVE nlargest(_, _)
nlargest(rows, n) ==
    IF n = 0 \/ rows = <<>> THEN <<>>
    ELSE LET best == CHOOSE i \in DOMAIN rows :
                        \A j \in DOMAIN rows :
                            /\ ~frac_lt(rows[i].value_score, rows[j].value_score)
                            /\ (j < i => frac_lt(rows[j].value_score, rows[i].value_score))
             rest == [k \in 1..(Len(rows) - 1) |-> IF k < best THEN rows[k] ELSE rows[k + 1]]
         IN  <<rows[best]>> \o nlargest(rest, n - 1)

\* a mutant: the stays of more than seven nights are not left out
top_value_frame_all_stays(self) ==
    [ref |-> Fresh, rows |-> deref(self, self.filtered_df)]

\* a mutant: the score is assigned in the view itself
top_value_frame_in_place(self) ==
    [ref |-> self.filtered_df, rows |-> deref(self, self.filtered_df)]

\* get_top_value_listings, line 261: df_value is a new object holding the practical stays
top_value_frame(self) ==
    [ref |-> Fresh,
     rows |-> SelectSeq(deref(self, self.filtered_df),
                        LAMBDA r : r.minimum_nights <= PracticalStayNights)]

\* the columns get_top_value_listings returns
TopValueColumns ==
    <<"name", "neighbourhood", "price", "number_of_reviews", "room_type", "value_score",
      "minimum_nights">>

top_value_columns(r) ==
    [idx |-> r.idx, name |-> r.name, neighbourhood |-> r.neighbourhood, price |-> r.price,
     number_of_reviews |-> r.number_of_reviews, room_type |-> r.room_type,
     value_score |-> r.value_score, minimum_nights |-> r.minimum_nights]

\* DataManager.get_top_value_listings
get_top_value_listings(self, n) ==
    IF self.filtered_df = None THEN Outcome(self, <<>>, FALSE, EmptyFrame)
    ELSE LET df_value == top_value_frame(self)
         IN  IF Len(df_value.rows) = 0 THEN Outcome(self, <<>>, FALSE, EmptyFrame)
             ELSE IF lacks(self, {"name", "neighbourhood", "room_type"})
             THEN \* KeyError at the column selection of line 271
                  KeyError(self)
             ELSE LET scored == [i \in DOMAIN df_value.rows |->
                                    [df_value.rows[i] EXCEPT !.value_score =
                                        Frac(df_value.rows[i].number_of_reviews,
                                             df_value.rows[i].price[1] + 1)]]
                      \* line 269 assigns the column in the object df_value refers to
                      after == [self EXCEPT !.heap =
                                   [o \in DOMAIN self.heap \cup {df_value.ref} |->
                                       IF o = df_value.ref THEN scored ELSE self.heap[o]]]
                      top == nlargest(scored, n)
                  IN  Outcome(after, <<>>, FALSE,
                              [kind |-> "frame", columns |-> TopValueColumns,
                               rows |-> [i \in DOMAIN top |-> top_value_columns(top[i])]])

\* last_review.dt.to_period('M'): the calendar month of a date
to_period(c) == <<c[1][1], c[1][2]>>

\* the months of a set, in calendar order (groupby sorts its keys)
RECURSIVE sorted_months(_)
sorted_months(months) ==
    IF months = {} THEN <<>>
    ELSE LET first == CHOOSE m \in months :
                         \A o \in months : m[1] * 12 + m[2] <= o[1] * 12 + o[2]
         IN  <<first>> \o sorted_months(months \ {first})

\* get_monthly_review_trend, line 326: temporal_df is a new object holding the rows
\* that have a last_review
temporal_frame(self) ==
    [ref |-> Fresh,
     rows |-> SelectSeq(deref(self, self.filtered_df), LAMBDA r : notnull(r.last_review))]

\* DataManager.get_monthly_review_trend
get_monthly_review_trend(self) ==
    IF self.filtered_df = None \/ "last_review" \notin self.columns THEN Outcome(self, <<>>, FALSE, EmptyFrame)
    ELSE LET temporal_df == temporal_frame(self)
         IN  IF Len(temporal_df.rows) = 0 THEN Outcome(self, <<>>, FALSE, EmptyFrame)
             ELSE LET dated == [i \in DOMAIN temporal_df.rows |->
                                   [temporal_df.rows[i] EXCEPT !.review_month =
                                       to_period(temporal_df.rows[i].last_review)]]
                      \* line 330 assigns the column in the object temporal_df refers to
                      after == [self EXCEPT !.heap =
                                   [o \in DOMAIN self.heap \cup {temporal_df.ref} |->
                                       IF o = temporal_df.ref THEN dated ELSE self.heap[o]]]
                      months == sorted_months({dated[i].review_month : i \in DOMAIN dated})
                  IN  Outcome(after, <<>>, FALSE,
                              [kind |-> "frame", columns |-> <<"review_month", "count">>,
                               rows |-> [k \in DOMAIN months |->
                                   [review_month |-> months[k],
                                    count |-> Cardinality({i \in DOMAIN dated :
                                                 dated[i].review_month = months[k]})]]])

ExportColumns ==
    <<"name", "neighbourhood_group", "neighbourhood", "room_type", "price",
      "number_of_reviews", "availability_365", "host_category">>

\* the export columns that hold text (object or category dtype); the others hold
\* integers
TextColumns ==
    {"name", "neighbourhood_group", "neighbourhood", "room_type", "host_category"}

\* the export columns whose values can be missing
NullableExportColumns == {"name", "price", "host_category"}

\* a value of column c as a nullable cell
as_cell(c, v) == IF c \in NullableExportColumns THEN v ELSE Cell(v)

\* DataFrame.to_csv of one value with the default na_rep and quoting: a missing value
\* is the empty field, text is written as it is (no quotes mark it as text), a number
\* as its numeral
to_csv_field(c, v) ==
    LET cell == as_cell(c, v)
    IN  IF isnull(cell) THEN ""
        ELSE IF c \in TextColumns THEN cell[1] ELSE ToString(cell[1])

\* DataManager.export_to_csv: the file written, returned here as the handler's result
export_to_csv(self) ==
    IF self.filtered_df = None THEN Outcome(self, <<>>, FALSE, NoReturn)
    ELSE LET export_cols == SelectSeq(ExportColumns, LAMBDA c : c \in self.columns)
             view == deref(self, self.filtered_df)
         IN  Outcome(self, <<>>, FALSE,
                     [kind |-> "csv", header |-> export_cols,
                      rows |-> [i \in DOMAIN view |->
                                   [j \in DOMAIN export_cols |->
                                       to_csv_field(export_cols[j],
                                                    view[i][export_cols[j]])]]])

\* the fields pd.read_csv takes for a missing value (of its default na_values)
NaValues == {"", "#N/A", "N/A", "NA", "NULL", "NaN", "n/a", "nan", "null"}

\* the numbers whose numerals the reader is tried on: the exported numbers are
\* counts of days and reviews and cleaned prices
Numerals == 0..PriceHigh

\* whether a field parses as a number, and the number
is_numeral(s) == \E n \in Numerals : ToString(n) = s
to_number(s) == CHOOSE n \in Numerals : ToString(n) = s

\* a value with its kind: missing, text or a number
Missing == [dtype |-> "nan", str |-> "", num |-> 0]
Text(s) == [dtype |-> "str", str |-> s, num |-> 0]
Number(n) == [dtype |-> "number", str |-> "", num |-> n]

\* pd.read_csv of one column: the fields in NaValues are missing; the column is
\* numeric when every other field parses as a number, else it keeps the text
read_column(fields) ==
    LET present == {i \in DOMAIN fields : fields[i] \notin NaValues}
        numeric == \A i \in present : is_numeral(fields[i])
    IN  [i \in DOMAIN fields |->
            IF i \notin present THEN Missing
            ELSE IF numeric THEN Number(to_number(fields[i]))
            ELSE Text(fields[i])]

\* pd.read_csv of an exported file: its rows, each the values of the header's columns
read_exported(csv) ==
    LET cols == [j \in DOMAIN csv.header |->
                    read_column([i \in DOMAIN csv.rows |-> csv.rows[i][j]])]
    IN  [i \in DOMAIN csv.rows |-> [j \in DOMAIN csv.header |-> cols[j][i]]]

----------------------------------------------------------------------------
(* The statistics queries *)

\* a dict result
Dict(items) == [kind |-> "dict", items |-> items]

\* frame[c] as a sequence of cells or values
column(rows, c) == [i \in DOMAIN rows |-> rows[i][c]]

\* the values of a column of cells that has no missing cell
values(rows, c) == [i \in DOMAIN rows |-> rows[i][c][1]]

RECURSIVE sum(_)
sum(xs) == IF xs = <<>> THEN 0 ELSE Head(xs) + sum(Tail(xs))

\* Series.mean(): NaN of an empty Series
mean(xs) == IF xs = <<>> THEN NaN ELSE Cell(Frac(sum(xs), Len(xs)))

\* xs in ascending order
RECURSIVE sort_values(_)
sort_values(xs) ==
    IF xs = <<>> THEN <<>>
    ELSE LET least == CHOOSE i \in DOMAIN xs : \A j \in DOMAIN xs : xs[i] <= xs[j]
             rest == [k \in 1..(Len(xs) - 1) |-> IF k < least THEN xs[k] ELSE xs[k + 1]]
         IN  <<xs[least]>> \o sort_values(rest)

\* Series.median(): the middle value, or the mean of the two middle values; NaN of an
\* empty Series
median(xs) ==
    LET s == sort_values(xs)
        n == Len(xs)
    IN  IF n = 0 THEN NaN
        ELSE IF n % 2 = 1 THEN Cell(Frac(s[(n + 1) \div 2], 1))
        ELSE Cell(Frac(s[n \div 2] + s[n \div 2 + 1], 2))

nunique(xs) == Cardinality({xs[i] : i \in DOMAIN xs})

\* round(x, digits) of a float, halves to even; scale is 10^digits; NaN stays NaN
round(c, scale) ==
    IF isnull(c) THEN NaN
    ELSE LET scaled == c[1].num * scale
             q == scaled \div c[1].den
             r == scaled % c[1].den
             up == 2 * r > c[1].den \/ (2 * r = c[1].den /\ q % 2 = 1)
         IN  Cell(Frac(IF up THEN q + 1 ELSE q, scale))

\* the rows of a frame whose column c holds key
group(rows, c, key) == SelectSeq(rows, LAMBDA r : r[c] = key)

\* groupby sorts its keys: the order of the boroughs and of the room types
BoroughOrder == <<"Bronx", "Brooklyn", "Manhattan", "Queens", "Staten Island">>
RoomTypeOrder == <<"Entire home/apt", "Private room", "Shared room">>

\* the keys of a groupby on column c, in sorted order
group_keys(rows, c, order) ==
    SelectSeq(order, LAMBDA key : \E i \in DOMAIN rows : rows[i][c] = key)

\* DataManager.get_stats
get_stats(self) ==
    IF self.filtered_df = None THEN Outcome(self, <<>>, FALSE, Dict(EmptyDict))
    ELSE LET view == deref(self, self.filtered_df)
         IN  Outcome(self, <<>>, FALSE, Dict(
                 [total_listings |-> Len(view),
                  avg_price |-> mean(values(view, "price")),
                  median_price |-> median(values(view, "price")),
                  total_hosts |-> nunique(column(view, "host_id")),
                  avg_reviews |-> mean(column(view, "number_of_reviews")),
                  total_reviews |-> sum(column(view, "number_of_reviews")),
                  commercial_count |->
                      IF "is_commercial" \in self.columns
                      THEN Len(SelectSeq(view, LAMBDA r : r.is_commercial))
                      ELSE 0,
                  avg_availability |-> mean(column(view, "availability_365"))]))

NeighbourhoodStatsColumns ==
    <<<<"id", "count">>, <<"price", "mean">>, <<"price", "median">>,
      <<"number_of_reviews", "sum">>, <<"availability_365", "mean">>>>

\* DataManager.get_neighbourhood_stats
get_neighbourhood_stats(self) ==
    IF self.filtered_df = None THEN Outcome(self, <<>>, FALSE, EmptyFrame)
    ELSE IF lacks(self, {"neighbourhood_group", "id"}) THEN KeyError(self)
    ELSE LET view == deref(self, self.filtered_df)
             keys == group_keys(view, "neighbourhood_group", BoroughOrder)
         IN  Outcome(self, <<>>, FALSE,
                 [kind |-> "frame", columns |-> NeighbourhoodStatsColumns,
                  rows |-> [k \in DOMAIN keys |->
                      LET g == group(view, "neighbourhood_group", keys[k])
                      IN  [neighbourhood_group |-> keys[k],
                           id_count |-> Len(g),
                           price_mean |-> round(mean(values(g, "price")), 100),
                           price_median |-> round(median(values(g, "price")), 100),
                           number_of_reviews_sum |-> sum(column(g, "number_of_reviews")),
                           availability_365_mean |->
                               round(mean(column(g, "availability_365")), 100)]]])

RoomTypeStatsColumns ==
    <<<<"id", "count">>, <<"price", "mean">>, <<"price", "median">>,
      <<"number_of_reviews", "mean">>>>

\* DataManager.get_room_type_stats
get_room_type_stats(self) ==
    IF self.filtered_df = None THEN Outcome(self, <<>>, FALSE, EmptyFrame)
    ELSE IF lacks(self, {"room_type", "id"}) THEN KeyError(self)
    ELSE LET view == deref(self, self.filtered_df)
             keys == group_keys(view, "room_type", RoomTypeOrder)
         IN  Outcome(self, <<>>, FALSE,
                 [kind |-> "frame", columns |-> RoomTypeStatsColumns,
                  rows |-> [k \in DOMAIN keys |->
                      LET g == group(view, "room_type", keys[k])
                      IN  [room_type |-> keys[k],
                           id_count |-> Len(g),
                           price_mean |-> round(mean(values(g, "price")), 100),
                           price_median |-> round(median(values(g, "price")), 100),
                           number_of_reviews_mean |->
                               round(mean(column(g, "number_of_reviews")), 100)]]])

\* np.histogram(prices, bins=HistogramBins): the range is (min, max), or (0, 1) of no
\* value, widened by a half each way when min = max; lengths are kept doubled here so
\* that the halves are integers
HistogramBins == 50

histogram_range(xs) ==
    LET s == sort_values(xs)
    IN  IF xs = <<>> THEN [lo2 |-> 0, hi2 |-> 2]
        ELSE IF s[1] = s[Len(s)] THEN [lo2 |-> 2 * s[1] - 1, hi2 |-> 2 * s[1] + 1]
        ELSE [lo2 |-> 2 * s[1], hi2 |-> 2 * s[Len(s)]]

\* the bin of x: left-closed bins of equal width, the last one closed on both sides
histogram_bin(x, range) ==
    IF 2 * x = range.hi2 THEN HistogramBins
    ELSE ((2 * x - range.lo2) * HistogramBins) \div (range.hi2 - range.lo2) + 1

\* DataManager.get_price_distribution
get_price_distribution(self) ==
    IF self.filtered_df = None
    THEN Outcome(self, <<>>, FALSE, [kind |-> "arrays", hist |-> <<>>, bins |-> <<>>])
    ELSE LET prices == values(deref(self, self.filtered_df), "price")
             range == histogram_range(prices)
         IN  Outcome(self, <<>>, FALSE,
                 [kind |-> "arrays",
                  hist |-> [b \in 1..HistogramBins |->
                               Cardinality({i \in DOMAIN prices :
                                               histogram_bin(prices[i], range) = b})],
                  bins |-> [e \in 1..(HistogramBins + 1) |->
                               Frac(range.lo2 * HistogramBins
                                        + (e - 1) * (range.hi2 - range.lo2),
                                    2 * HistogramBins)]])

\* the distinct values of a sequence of integers, ascending (groupby sorts its keys)
sorted_unique(xs) ==
    LET S == {xs[i] : i \in DOMAIN xs}
        F[k \in 0..Cardinality(S)] ==
            IF k = 0 THEN <<>>
            ELSE Append(F[k - 1],
                        CHOOSE x \in S : Cardinality({y \in S : y < x}) = k - 1)
    IN  F[Cardinality(S)]

\* agg 'first': the first cell of the group that is not missing
first(cells) ==
    LET present == SelectSeq(cells, notnull)
    IN  IF present = <<>> THEN NaN ELSE Head(present)

\* a mutant: of equal counts the last row is taken first (keep='last')
RECURSIVE nlargest_count_keep_last(_, _)
nlargest_count_keep_last(rows, n) ==
    IF n = 0 \/ rows = <<>> THEN <<>>
    ELSE LET best == CHOOSE i \in DOMAIN rows :
                        \A j \in DOMAIN rows :
                            /\ rows[j].listing_count <= rows[i].listing_count
                            /\ (j > i => rows[j].listing_count < rows[i].listing_count)
             rest == [k \in 1..(Len(rows) - 1) |-> IF k < best THEN rows[k] ELSE rows[k + 1]]
         IN  <<rows[best]>> \o nlargest_count_keep_last(rest, n - 1)

\* frame.nlargest(n, 'listing_count'): descending, ties in the frame's row order
RECURSIVE nlargest_count(_, _)
nlargest_count(rows, n) ==
    IF n = 0 \/ rows = <<>> THEN <<>>
    ELSE LET best == CHOOSE i \in DOMAIN rows :
                        \A j \in DOMAIN rows :
                            /\ rows[j].listing_count <= rows[i].listing_count
                            /\ (j < i => rows[j].listing_count < rows[i].listing_count)
             rest == [k \in 1..(Len(rows) - 1) |-> IF k < best THEN rows[k] ELSE rows[k + 1]]
         IN  <<rows[best]>> \o nlargest_count(rest, n - 1)

TopHostsColumns == <<"host_id", "host_name", "listing_count", "avg_price", "total_reviews">>

\* get_top_hosts, lines 239-247: one row per host, in ascending host_id order
host_stats(view) ==
    LET keys == sorted_unique(column(view, "host_id"))
    IN  [k \in DOMAIN keys |->
            LET g == group(view, "host_id", keys[k])
            IN  [host_id |-> keys[k],
                 host_name |-> first(column(g, "host_name")),
                 listing_count |-> Len(g),
                 avg_price |-> mean(values(g, "price")),
                 total_reviews |-> sum(column(g, "number_of_reviews"))]]

\* DataManager.get_top_hosts
get_top_hosts(self, n) ==
    IF self.filtered_df = None THEN Outcome(self, <<>>, FALSE, EmptyFrame)
    ELSE IF lacks(self, {"host_name", "id"}) THEN KeyError(self)
    ELSE Outcome(self, <<>>, FALSE,
             [kind |-> "frame", columns |-> TopHostsColumns,
              rows |-> nlargest_count(host_stats(deref(self, self.filtered_df)), n)])

\* get_commercial_stats: the medians of one side, 0 when the side has no row
side_stats(rows) ==
    [count |-> Len(rows),
     median_price |-> IF Len(rows) > 0 THEN median(values(rows, "price")) ELSE 0,
     median_availability |->
         IF Len(rows) > 0 THEN median(column(rows, "availability_365")) ELSE 0,
     median_reviews |->
         IF Len(rows) > 0 THEN median(column(rows, "number_of_reviews")) ELSE 0]

\* DataManager.get_commercial_stats
get_commercial_stats(self) ==
    IF self.filtered_df = None \/ "is_commercial" \notin self.columns
    THEN Outcome(self, <<>>, FALSE, Dict(EmptyDict))
    ELSE LET view == deref(self, self.filtered_df)
         IN  Outcome(self, <<>>, FALSE, Dict(
                 [commercial |-> side_stats(SelectSeq(view, LAMBDA r : r.is_commercial = TRUE)),
                  regular |-> side_stats(SelectSeq(view, LAMBDA r : r.is_commercial = FALSE))]))

\* the (neighbourhood_group, room_type) pairs in groupby's sorted order
SegmentOrder ==
    [k \in 1..(Len(BoroughOrder) * Len(RoomTypeOrder)) |->
        <<BoroughOrder[((k - 1) \div Len(RoomTypeOrder)) + 1],
          RoomTypeOrder[((k - 1) % Len(RoomTypeOrder)) + 1]>>]

segment(rows, pair) ==
    SelectSeq(rows, LAMBDA r : r.neighbourhood_group = pair[1] /\ r.room_type = pair[2])

\* price * availability_365 * 0.7 of two medians
revenue(price, availability) ==
    Frac(price[1].num * availability[1].num * 7, price[1].den * availability[1].den * 10)

\* sort_values('estimated_annual_revenue', ascending=False): ties keep their order
RECURSIVE sort_by_revenue(_)
sort_by_revenue(rows) ==
    IF rows = <<>> THEN <<>>
    ELSE LET best == CHOOSE i \in DOMAIN rows :
                        \A j \in DOMAIN rows :
                            /\ ~frac_lt(rows[i].estimated_annual_revenue,
                                        rows[j].estimated_annual_revenue)
                            /\ (j < i => frac_lt(rows[j].estimated_annual_revenue,
                                                 rows[i].estimated_annual_revenue))
             rest == [k \in 1..(Len(rows) - 1) |-> IF k < best THEN rows[k] ELSE rows[k + 1]]
         IN  <<rows[best]>> \o sort_by_revenue(rest)

\* frame.head(n)
head(rows, n) == SubSeq(rows, 1, IF n < Len(rows) THEN n ELSE Len(rows))

RoiColumns ==
    <<"neighbourhood_group", "room_type", "price", "availability_365",
      "number_of_reviews", "estimated_annual_revenue">>

\* get_roi_data, lines 303-309: one row per segment of the view, with its medians and
\* its revenue
roi_segments(view) ==
    LET keys == SelectSeq(SegmentOrder, LAMBDA pair : segment(view, pair) # <<>>)
    IN  [k \in DOMAIN keys |->
            LET g == segment(view, keys[k])
                price == median(values(g, "price"))
                availability == median(column(g, "availability_365"))
            IN  [neighbourhood_group |-> keys[k][1], room_type |-> keys[k][2],
                 price |-> price, availability_365 |-> availability,
                 number_of_reviews |-> median(column(g, "number_of_reviews")),
                 estimated_annual_revenue |-> revenue(price, availability)]]

\* a mutant: the segments are returned in groupby's order
roi_order_unsorted(rows) == rows

\* get_roi_data, line 310
roi_order(rows) == sort_by_revenue(rows)

\* DataManager.get_roi_data
get_roi_data(self, top_n) ==
    IF self.filtered_df = None THEN Outcome(self, <<>>, FALSE, EmptyFrame)
    ELSE IF lacks(self, {"neighbourhood_group", "room_type"}) THEN KeyError(self)
    ELSE Outcome(self, <<>>, FALSE,
             [kind |-> "frame", columns |-> RoiColumns,
              rows |-> head(roi_order(roi_segments(deref(self, self.filtered_df))), top_n)])

\* DataManager.get_host_category_stats; `observed` is the groupby default of the pandas
\* in use: False lists every category, True only those that occur
get_host_category_stats(self, observed) ==
    IF self.filtered_df = None \/ "host_category" \notin self.columns
    THEN Outcome(self, <<>>, FALSE, EmptyFrame)
    ELSE LET view == deref(self, self.filtered_df)
             size(label) ==
                 Len(SelectSeq(view, LAMBDA r : cell_eq(r.host_category, label)))
             keys == SelectSeq(HostLabels, LAMBDA label : ~observed \/ size(label) > 0)
         IN  Outcome(self, <<>>, FALSE,
                 [kind |-> "frame", columns |-> <<"host_category", "count">>,
                  rows |-> [k \in DOMAIN keys |->
                               [host_category |-> keys[k], count |-> size(keys[k])]]])

\* sorted() of neighbourhood names
NeighbourhoodOrder == <<"Harlem", "Riverdale", "SoHo", "Williamsburg">>

\* the borough arguments: a str, a list (its elements as a set) or None
Str(v) == [type |-> "str", str |-> v, list |-> {}]
List(v) == [type |-> "list", str |-> "", list |-> v]
NoneArg == [type |-> "None", str |-> "", list |-> {}]

sorted_neighbourhoods(rows) ==
    [kind |-> "list",
     items |-> SelectSeq(NeighbourhoodOrder,
                         LAMBDA name : \E i \in DOMAIN rows : rows[i].neighbourhood = name)]

\* a mutant: the names taken from the filtered view
get_neighbourhoods_for_borough_of_view(self, borough) ==
    IF self.df = None THEN Outcome(self, <<>>, FALSE, [kind |-> "list", items |-> <<>>])
    ELSE LET view == deref(self, self.filtered_df)
         IN  IF borough = Str("all") \/ borough = List({}) \/ borough = NoneArg
             THEN Outcome(self, <<>>, FALSE, sorted_neighbourhoods(view))
             ELSE IF borough.type = "list"
             THEN Outcome(self, <<>>, FALSE, sorted_neighbourhoods(
                      SelectSeq(view, LAMBDA r : r.neighbourhood_group \in borough.list)))
             ELSE Outcome(self, <<>>, FALSE, sorted_neighbourhoods(
                      SelectSeq(view, LAMBDA r : r.neighbourhood_group = borough.str)))

\* DataManager.get_neighbourhoods_for_borough
get_neighbourhoods_for_borough(self, borough) ==
    IF self.df = None THEN Outcome(self, <<>>, FALSE, [kind |-> "list", items |-> <<>>])
    ELSE IF lacks(self, {"neighbourhood"})
                \/ (borough \notin {Str("all"), List({}), NoneArg}
                    /\ lacks(self, {"neighbourhood_group"}))
    THEN KeyError(self)
    ELSE LET base == deref(self, self.df)
         IN  IF borough = Str("all") \/ borough = List({}) \/ borough = NoneArg
             THEN Outcome(self, <<>>, FALSE, sorted_neighbourhoods(base))
             ELSE IF borough.type = "list"
             THEN Outcome(self, <<>>, FALSE, sorted_neighbourhoods(
                      SelectSeq(base, LAMBDA r : r.neighbourhood_group \in borough.list)))
             ELSE Outcome(self, <<>>, FALSE, sorted_neighbourhoods(
                      SelectSeq(base, LAMBDA r : r.neighbourhood_group = borough.str)))

\* the columns of a cleaned frame, in order
FrameColumnOrder ==
    <<"id", "name", "host_id", "host_name", "neighbourhood_group", "neighbourhood",
      "latitude", "longitude", "room_type", "price", "minimum_nights",
      "number_of_reviews", "last_review", "reviews_per_month",
      "calculated_host_listings_count", "availability_365", "review_month",
      "review_year", "is_commercial", "price_category", "host_listing_count",
      "host_size", "host_category", "value_score", "estimated_annual_revenue">>

\* frame.sample(n, random_state=42): n distinct rows, which ones and in which order
\* being fixed by the seed
sample(rows, n) ==
    LET picks == CHOOSE q \in [1..n -> DOMAIN rows] : \A i, j \in 1..n : q[i] = q[j] => i = j
    IN  [k \in 1..n |-> rows[picks[k]]]

\* DataManager.get_map_data
get_map_data(self, sample_size) ==
    IF self.filtered_df = None THEN Outcome(self, <<>>, FALSE, EmptyFrame)
    ELSE LET view == deref(self, self.filtered_df)
         IN  Outcome(self, <<>>, FALSE,
                 [kind |-> "frame",
                  columns |-> SelectSeq(FrameColumnOrder, LAMBDA c : c \in self.columns),
                  rows |-> IF Len(view) > sample_size THEN sample(view, sample_size)
                           ELSE view])

\* get_missing_data_stats, line 396
KeyColumns == <<"name", "host_name", "last_review", "reviews_per_month">>

\* a mutant: the cells that are present counted
missing_count_notnull(rows, c) == Len(SelectSeq(rows, LAMBDA r : notnull(r[c])))

\* frame[c].isnull().sum()
missing_count(rows, c) == Len(SelectSeq(rows, LAMBDA r : isnull(r[c])))

\* DataManager.get_missing_data_stats
get_missing_data_stats(self) ==
    IF self.filtered_df = None THEN Outcome(self, <<>>, FALSE, Dict(EmptyDict))
    ELSE LET view == deref(self, self.filtered_df)
             total_rows == Len(view)
             reported == {c \in {KeyColumns[j] : j \in DOMAIN KeyColumns} :
                             c \in self.columns /\ missing_count(view, c) > 0}
         IN  Outcome(self, <<>>, FALSE, Dict(
                 [c \in reported |->
                     [count |-> missing_count(view, c),
                      percentage |->
                          round(Cell(Frac(missing_count(view, c) * 100, total_rows)), 10)]]))

\* the columns of a cleaned frame that can hold a missing cell
NullableColumns ==
    {"name", "host_name", "latitude", "longitude", "price", "last_review",
     "reviews_per_month", "review_year", "price_category", "host_size", "host_category"}

\* a / b * 100 of numpy integers: NaN (and a warning, no exception) when b = 0
percent(a, b) == IF b = 0 THEN NaN ELSE Cell(Frac(a * 100, b))

\* DataManager.get_data_quality_score
get_data_quality_score(self) ==
    IF self.filtered_df = None
    THEN Outcome(self, <<>>, FALSE, Dict([score |-> 0, details |-> EmptyDict]))
    ELSE LET view == deref(self, self.filtered_df)
             total_rows == Len(view)
             total_cells == total_rows * Cardinality(self.columns)
             missing_cells == sum([i \in DOMAIN view |->
                                  Cardinality({c \in NullableColumns \cap self.columns :
                                                  isnull(view[i][c])})])
             completeness == percent(total_cells - missing_cells, total_cells)
             price_outliers ==
                 Len(SelectSeq(view, LAMBDA r :
                         notnull(r.price)
                             /\ (r.price[1] < PriceLow \/ r.price[1] > PriceHigh)))
         IN  Outcome(self, <<>>, FALSE, Dict(
                 [score |-> round(completeness, 10),
                  total_records |-> total_rows,
                  missing_cells |-> missing_cells,
                  completeness |-> round(completeness, 10),
                  outliers_filtered |-> price_outliers]))

\* np.mean of an array of floats with one denominator: NaN (and a warning) of none
mean_of_fracs(fs) ==
    IF fs = <<>> THEN NaN
    ELSE Cell(Frac(sum([i \in DOMAIN fs |-> fs[i].num]), fs[1].den * Len(fs)))

\* 1.96 * (np.std(xs) / np.sqrt(len(xs))): NaN of no value, 0 of equal values; of
\* other values the square root is left as a term
ci_95(xs) ==
    IF xs = <<>> THEN NaN
    ELSE IF \A i \in DOMAIN xs : xs[i] = xs[1] THEN Cell(Frac(0, 1))
    ELSE Cell([ci_95_of |-> xs])

\* round(mean + sign * ci, 2)
ci_bound(m, ci, sign) ==
    IF isnull(m) \/ isnull(ci) THEN NaN
    ELSE IF ci = Cell(Frac(0, 1)) THEN round(m, 100)
    ELSE Cell([mean |-> m[1], sign |-> sign, ci_95 |-> ci[1]])

\* the four entries of get_uncertainty_indicators for one metric
indicators(m, ci) ==
    [mean |-> round(m, 100),
     ci_lower |-> ci_bound(m, ci, -1),
     ci_upper |-> ci_bound(m, ci, 1),
     margin_of_error |-> IF ci = Cell(Frac(0, 1)) THEN round(ci, 100) ELSE ci]

\* DataManager.get_uncertainty_indicators
get_uncertainty_indicators(self) ==
    IF self.filtered_df = None THEN Outcome(self, <<>>, FALSE, Dict(EmptyDict))
    ELSE LET view == deref(self, self.filtered_df)
             prices == values(view, "price")
             revenues == column(view, "estimated_annual_revenue")
         IN  Outcome(self, <<>>, FALSE, Dict(
                 [price |-> indicators(mean(prices), ci_95(prices)),
                  revenue |->
                      IF "estimated_annual_revenue" \in self.columns
                      THEN indicators(mean_of_fracs(revenues), ci_95(revenues))
                      ELSE indicators(Cell(Frac(0, 1)), Cell(Frac(0, 1))),
                  note |-> "95% confidence interval"]))

----------------------------------------------------------------------------
(* DataLoader: the background thread *)

\* a mutant: a failed derivation is reported as progress 100 and then as an error
loader_step_late_error(t, file) ==
    CASE t.pc = "NotStarted" ->
            [t EXCEPT !.pc = "Parsing", !.emitted = Append(@, "progress(10)")]
      [] t.pc = "Parsing" ->
            LET parsed == read_csv(file)
            IN  IF parsed.raised
                THEN [t EXCEPT !.pc = "Failed", !.emitted = Append(@, "error")]
                ELSE [t EXCEPT !.pc = "Deriving", !.parsed = parsed.file,
                               !.emitted = Append(@, "progress(50)")]
      [] t.pc = "Deriving" ->
            LET made == process_dataframe(t.parsed)
            IN  IF made.raised
                THEN [t EXCEPT !.pc = "Failed", !.parsed = None,
                               !.emitted = @ \o <<"progress(100)", "error">>]
                ELSE [t EXCEPT !.pc = "Done", !.parsed = None, !.frame = made.frame,
                               !.emitted = @ \o <<"progress(100)", "finished">>]

\* DataLoader.run, one step of the thread; `file` is what is on disk at its path
loader_step(t, file) ==
    CASE t.pc = "NotStarted" ->
            [t EXCEPT !.pc = "Parsing", !.emitted = Append(@, "progress(10)")]
      [] t.pc = "Parsing" ->
            LET parsed == read_csv(file)
            IN  IF parsed.raised
                THEN [t EXCEPT !.pc = "Failed", !.emitted = Append(@, "error")]
                ELSE [t EXCEPT !.pc = "Deriving", !.parsed = parsed.file,
                               !.emitted = Append(@, "progress(50)")]
      [] t.pc = "Deriving" ->
            LET made == process_dataframe(t.parsed)
            IN  IF made.raised
                THEN [t EXCEPT !.pc = "Failed", !.parsed = None,
                               !.emitted = Append(@, "error")]
                ELSE [t EXCEPT !.pc = "Done", !.parsed = None, !.frame = made.frame,
                               !.emitted = @ \o <<"progress(100)", "finished">>]

\* the slots connected to a DataLoader's signals: load_data connects finished to
\* _on_data_loaded (line 107) and nothing to progress or error
Connected == {"finished"}

\* the signals of a step that have a slot, as deliveries queued to the main thread
queued(i, before, after) ==
    LET new == SubSeq(after.emitted, Len(before.emitted) + 1, Len(after.emitted))
    IN  [k \in DOMAIN SelectSeq(new, LAMBDA sig : sig \in Connected) |->
            [loader |-> i, signal |-> SelectSeq(new, LAMBDA sig : sig \in Connected)[k],
             frame |-> after.frame]]

\* DataManager.load_data: a new thread, its finished signal connected, started
new_loader(path) ==
    [file_path |-> path, pc |-> "NotStarted", parsed |-> None, frame |-> Frame({}, <<>>),
     emitted |-> <<>>, delivered |-> <<>>]

----------------------------------------------------------------------------
(* ProfessionalRangeSlider: the price filter *)

\* ProfessionalRangeSlider(10, 1000): the range of both spin boxes and of the slider
PriceFilterMin == 10
PriceFilterMax == 1000

\* Python's min and max of two numbers
min(a, b) == IF a <= b THEN a ELSE b
max(a, b) == IF a >= b THEN a ELSE b

\* the slider after ProfessionalRangeSlider._setup_ui; rangeChanged counts the
\* emissions of the widget's signal by the handler that is running
RangeSlider ==
    [min_input |-> PriceFilterMin, max_input |-> PriceFilterMax,
     low |-> PriceFilterMin, high |-> PriceFilterMax, rangeChanged |-> 0]

\* DoubleHandleSlider.setLow and setHigh: a handle stays inside the limits and on its
\* side of the other handle
setLow(s, low) == [s EXCEPT !.low = max(PriceFilterMin, min(low, s.high))]
setHigh(s, high) == [s EXCEPT !.high = min(PriceFilterMax, max(high, s.low))]

\* self.rangeChanged.emit
emit_rangeChanged(s) == [s EXCEPT !.rangeChanged = @ + 1]

\* QSpinBox.setValue keeps the value inside the box's range
in_range(v) == max(PriceFilterMin, min(v, PriceFilterMax))

\* ProfessionalRangeSlider._on_min_input_changed: a value above the maximum is set
\* back to the maximum, which runs the handler once more, and the outer call returns
_on_min_input_changed(s, value) ==
    IF value > s.max_input
    THEN emit_rangeChanged(setLow([s EXCEPT !.min_input = s.max_input], s.max_input))
    ELSE emit_rangeChanged(setLow(s, value))

\* ProfessionalRangeSlider._on_max_input_changed
_on_max_input_changed(s, value) ==
    IF value < s.min_input
    THEN emit_rangeChanged(setHigh([s EXCEPT !.max_input = s.min_input], s.min_input))
    ELSE emit_rangeChanged(setHigh(s, value))

\* min_input.setValue and max_input.setValue with the signals on: valueChanged is
\* emitted when the value changes
min_input_setValue(s, v) ==
    IF in_range(v) = s.min_input THEN s
    ELSE _on_min_input_changed([s EXCEPT !.min_input = in_range(v)], in_range(v))
max_input_setValue(s, v) ==
    IF in_range(v) = s.max_input THEN s
    ELSE _on_max_input_changed([s EXCEPT !.max_input = in_range(v)], in_range(v))

\* ProfessionalRangeSlider._on_slider_changed: the boxes follow the handles, their
\* signals blocked
_on_slider_changed(s, low, high) ==
    emit_rangeChanged([s EXCEPT !.min_input = in_range(low), !.max_input = in_range(high)])

\* DoubleHandleSlider.mouseMoveEvent with a handle pressed, the pointer at `value`
mouseMoveEvent(s, control, value) ==
    LET moved == IF control = "low" THEN setLow(s, value) ELSE setHigh(s, value)
    IN  IF <<moved.low, moved.high>> # <<s.low, s.high>>
        THEN _on_slider_changed(moved, moved.low, moved.high)
        ELSE s

\* ProfessionalRangeSlider.set_values
set_values(s, min_val, max_val) ==
    setHigh(setLow(max_input_setValue(min_input_setValue(s, min_val), max_val), min_val),
            max_val)

\* ProfessionalRangeSlider.get_values
get_values(s) == <<s.min_input, s.max_input>>

----------------------------------------------------------------------------
(* FilterPanel *)

\* the debounce interval of 300 ms, in ticks of 100 ms
Interval == 3

\* the check boxes of the two CheckboxGroups, in order
BoroughBoxes == <<"Manhattan", "Brooklyn", "Queens", "Bronx", "Staten Island">>
RoomBoxes == <<"Entire home/apt", "Private room", "Shared room">>

\* the items of host_category_combo
HostItems == <<"All", "Single (1)", "Small (2-5)", "Medium (6-10)", "Mega (10+)">>

\* the ranges of the review and night controls
ReviewsMax == 500
NightsMin == 1
NightsMax == 30

\* DataManager.get_host_categories
get_host_categories == <<"all">> \o HostLabels

\* the controls after FilterPanel._setup_ui, where rangeChanged is connected after the
\* first set_values; neighbourhood and host_category are the
\* current indexes of the two combos, neighbourhood_items the data of the items after
\* the first ("all"), host_category_items the texts of the items
FilterPanel ==
    [neighbourhood_filter |-> {BoroughBoxes[k] : k \in DOMAIN BoroughBoxes},
     neighbourhood_items |-> <<>>,
     neighbourhood |-> 0,
     room_filter |-> {RoomBoxes[k] : k \in DOMAIN RoomBoxes},
     price_filter |-> [set_values(RangeSlider, 100, 150) EXCEPT !.rangeChanged = 0],
     reviews_input |-> 0, reviews_slider |-> 0,
     nights_input |-> NightsMax, nights_slider |-> NightsMax,
     host_category_items |-> HostItems,
     host_category |-> 0,
     commercial_checkbox |-> FALSE]

\* a handler of the panel at work: the controls, whether the debounce timer was
\* restarted, and the signals of the panel emitted so far
Handling(w) == [w |-> w, restarted |-> FALSE, out |-> <<>>]

\* FilterPanel.get_filters
get_filters(w) ==
    [neighbourhood_group |-> w.neighbourhood_filter,
     neighbourhood |-> IF w.neighbourhood = 0 THEN "all"
                       ELSE w.neighbourhood_items[w.neighbourhood],
     room_type |-> w.room_filter,
     price_range |-> get_values(w.price_filter),
     min_nights |-> w.nights_input,
     min_reviews |-> w.reviews_input,
     host_category |-> IF w.host_category_items[w.host_category + 1] = "All" THEN "all"
                       ELSE w.host_category_items[w.host_category + 1],
     commercial_only |-> w.commercial_checkbox]

\* FilterPanel._on_filter_change: the timer is stopped and started
_on_filter_change(p) == [p EXCEPT !.restarted = TRUE]

\* FilterPanel._emit_filters
_emit_filters(p) ==
    [p EXCEPT !.out = Append(@, [signal |-> "filters_changed", arg |-> get_filters(p.w)])]

\* FilterPanel.set_neighbourhood_options: the combo is filled again with its signals
\* blocked, and its first item becomes the current one
set_neighbourhood_options(p, neighbourhoods) ==
    [p EXCEPT !.w.neighbourhood_items = neighbourhoods, !.w.neighbourhood = 0]

\* FilterPanel.set_host_category_options: clear() and the first addItem each change
\* the current index with the signals on
set_host_category_options(p, categories) ==
    _on_filter_change([p EXCEPT !.w.host_category_items = <<"All">> \o categories,
                                !.w.host_category = 0])

\* MainWindow._on_borough_changed, the slot of borough_changed once a dataset has been
\* loaded; an exception of the query ends the slot
_on_borough_changed(p, boroughs) ==
    LET names == get_neighbourhoods_for_borough(Self, List(boroughs))
    IN  IF names.raised THEN p ELSE set_neighbourhood_options(p, names.ret.items)

\* FilterPanel._on_borough_selection_changed
_on_borough_selection_changed(p) ==
    LET q == _on_filter_change(p)
        r == [q EXCEPT !.out = Append(@, [signal |-> "borough_changed",
                                          arg |-> q.w.neighbourhood_filter])]
    IN  IF df # None THEN _on_borough_changed(r, r.w.neighbourhood_filter) ELSE r

\* QCheckBox.setChecked of a box of a group: stateChanged when the state changes
borough_setChecked(p, box, checked) ==
    IF (box \in p.w.neighbourhood_filter) = checked THEN p
    ELSE _on_borough_selection_changed(
             [p EXCEPT !.w.neighbourhood_filter =
                           IF checked THEN @ \cup {box} ELSE @ \ {box}])
room_setChecked(p, box, checked) ==
    IF (box \in p.w.room_filter) = checked THEN p
    ELSE _on_filter_change(
             [p EXCEPT !.w.room_filter = IF checked THEN @ \cup {box} ELSE @ \ {box}])

\* CheckboxGroup.select_all of the two groups, box after box from box k on
RECURSIVE boroughs_select_all(_, _)
boroughs_select_all(p, k) ==
    IF k > Len(BoroughBoxes) THEN p
    ELSE boroughs_select_all(borough_setChecked(p, BoroughBoxes[k], TRUE), k + 1)
RECURSIVE rooms_select_all(_, _)
rooms_select_all(p, k) ==
    IF k > Len(RoomBoxes) THEN p
    ELSE rooms_select_all(room_setChecked(p, RoomBoxes[k], TRUE), k + 1)

\* QComboBox.setCurrentIndex: currentIndexChanged when the index changes
neighbourhood_setCurrentIndex(p, i) ==
    IF p.w.neighbourhood = i THEN p
    ELSE _on_filter_change([p EXCEPT !.w.neighbourhood = i])
host_category_setCurrentIndex(p, i) ==
    IF p.w.host_category = i THEN p
    ELSE _on_filter_change([p EXCEPT !.w.host_category = i])

\* commercial_checkbox.setChecked
commercial_setChecked(p, checked) ==
    IF p.w.commercial_checkbox = checked THEN p
    ELSE _on_filter_change([p EXCEPT !.w.commercial_checkbox = checked])

\* a call of the price filter from the panel: its rangeChanged is connected to
\* _on_filter_change
price_filter_does(p, after) ==
    LET q == [p EXCEPT !.w.price_filter = [after EXCEPT !.rangeChanged = 0]]
    IN  IF after.rangeChanged > 0 THEN _on_filter_change(q) ELSE q

\* FilterPanel._on_reviews_input_changed and its three siblings: the other control of
\* the pair follows, its signals blocked, and the display is updated
_on_reviews_input_changed(p, value) == [p EXCEPT !.w.reviews_slider = value]
_on_reviews_slider_changed(p, value) == [p EXCEPT !.w.reviews_input = value]
_on_nights_input_changed(p, value) == [p EXCEPT !.w.nights_slider = value]
_on_nights_slider_changed(p, value) == [p EXCEPT !.w.nights_input = value]

\* setValue of the four controls: valueChanged when the value, kept in the control's
\* range, changes
reviews_input_setValue(p, v) ==
    LET value == max(0, min(v, ReviewsMax))
    IN  IF value = p.w.reviews_input THEN p
        ELSE _on_reviews_input_changed([p EXCEPT !.w.reviews_input = value], value)
reviews_slider_setValue(p, v) ==
    LET value == max(0, min(v, ReviewsMax))
    IN  IF value = p.w.reviews_slider THEN p
        ELSE _on_reviews_slider_changed([p EXCEPT !.w.reviews_slider = value], value)
nights_input_setValue(p, v) ==
    LET value == max(NightsMin, min(v, NightsMax))
    IN  IF value = p.w.nights_input THEN p
        ELSE _on_nights_input_changed([p EXCEPT !.w.nights_input = value], value)
nights_slider_setValue(p, v) ==
    LET value == max(NightsMin, min(v, NightsMax))
    IN  IF value = p.w.nights_slider THEN p
        ELSE _on_nights_slider_changed([p EXCEPT !.w.nights_slider = value], value)

\* FilterPanel.reset_filters
reset_filters(p) ==
    LET a == boroughs_select_all(p, 1)
        b == neighbourhood_setCurrentIndex(a, 0)
        c == rooms_select_all(b, 1)
        d == price_filter_does(c, set_values(c.w.price_filter, 100, 150))
        e == reviews_slider_setValue(reviews_input_setValue(d, 0), 0)
        f == nights_slider_setValue(nights_input_setValue(e, NightsMax), NightsMax)
        g == host_category_setCurrentIndex(f, 0)
        h == commercial_setChecked(g, FALSE)
    IN  _emit_filters(h)

----------------------------------------------------------------------------
(* MainWindow: the loading overlay and the single-shot timers *)

\* QTimer.singleShot(100, ...) of _load_data and QTimer.singleShot(50, ...) of
\* _on_filters_changed
LoadTimer == [kind |-> "load", filters |-> EmptyDict]
ApplyTimer(filters) == [kind |-> "apply", filters |-> filters]

----------------------------------------------------------------------------
(* The behaviours *)

NoLoaders == <<>>

TopNs == {1, 10}

InitOver(files) ==
    /\ \E file \in files : disk = ("AB_NYC_2019_csv" :> file) @@ OtherDisk
    /\ df = None
    /\ filtered_df = None
    /\ columns = {}
    /\ heap = EmptyDict
    /\ _filters = EmptyDict
    /\ signals = <<>>
    /\ last = "__init__"
    /\ raised = FALSE
    /\ ret = NoReturn
    /\ loaders = NoLoaders
    /\ events = <<>>
    /\ panel = FilterPanel
    /\ timer = 0
    /\ quiet = Interval + 1
    /\ unreported = FALSE
    /\ emitted = <<>>
    /\ overlay = TRUE
    /\ pending = <<LoadTimer>>

\* a main-thread handler ran to its end and left `out`
Becomes(name, out) ==
    /\ df' = out.self.df
    /\ filtered_df' = out.self.filtered_df
    /\ columns' = out.self.columns
    /\ heap' = out.self.heap
    /\ _filters' = out.self._filters
    /\ signals' = out.signals
    /\ raised' = out.raised
    /\ ret' = out.ret
    /\ last' = name

LoadDataSync(path) ==
    /\ Becomes("load_data_sync", load_data_sync(Self, disk[path]))
    /\ UNCHANGED <<disk, loaders, events, widgets>>

ApplyFilters(filters) ==
    /\ Becomes("apply_filters", apply_filters(Self, filters))
    /\ UNCHANGED <<disk, loaders, events, widgets>>

GetTopValueListings(n) ==
    /\ Becomes("get_top_value_listings", get_top_value_listings(Self, n))
    /\ UNCHANGED <<disk, loaders, events, widgets>>

GetMonthlyReviewTrend ==
    /\ Becomes("get_monthly_review_trend", get_monthly_review_trend(Self))
    /\ UNCHANGED <<disk, loaders, events, widgets>>

ExportToCsv ==
    /\ Becomes("export_to_csv", export_to_csv(Self))
    /\ UNCHANGED <<disk, loaders, events, widgets>>

GetStats ==
    /\ Becomes("get_stats", get_stats(Self))
    /\ UNCHANGED <<disk, loaders, events, widgets>>

GetNeighbourhoodStats ==
    /\ Becomes("get_neighbourhood_stats", get_neighbourhood_stats(Self))
    /\ UNCHANGED <<disk, loaders, events, widgets>>

GetRoomTypeStats ==
    /\ Becomes("get_room_type_stats", get_room_type_stats(Self))
    /\ UNCHANGED <<disk, loaders, events, widgets>>

GetPriceDistribution ==
    /\ Becomes("get_price_distribution", get_price_distribution(Self))
    /\ UNCHANGED <<disk, loaders, events, widgets>>

GetTopHosts(n) ==
    /\ Becomes("get_top_hosts", get_top_hosts(Self, n))
    /\ UNCHANGED <<disk, loaders, events, widgets>>

GetCommercialStats ==
    /\ Becomes("get_commercial_stats", get_commercial_stats(Self))
    /\ UNCHANGED <<disk, loaders, events, widgets>>

GetRoiData(top_n) ==
    /\ Becomes("get_roi_data", get_roi_data(Self, top_n))
    /\ UNCHANGED <<disk, loaders, events, widgets>>

GetHostCategoryStats(observed) ==
    /\ Becomes("get_host_category_stats", get_host_category_stats(Self, observed))
    /\ UNCHANGED <<disk, loaders, events, widgets>>

GetNeighbourhoodsForBorough(borough) ==
    /\ Becomes("get_neighbourhoods_for_borough", get_neighbourhoods_for_borough(Self, borough))
    /\ UNCHANGED <<disk, loaders, events, widgets>>

GetMapData(sample_size) ==
    /\ Becomes("get_map_data", get_map_data(Self, sample_size))
    /\ UNCHANGED <<disk, loaders, events, widgets>>

GetMissingDataStats ==
    /\ Becomes("get_missing_data_stats", get_missing_data_stats(Self))
    /\ UNCHANGED <<disk, loaders, events, widgets>>

GetDataQualityScore ==
    /\ Becomes("get_data_quality_score", get_data_quality_score(Self))
    /\ UNCHANGED <<disk, loaders, events, widgets>>

GetUncertaintyIndicators ==
    /\ Becomes("get_uncertainty_indicators", get_uncertainty_indicators(Self))
    /\ UNCHANGED <<disk, loaders, events, widgets>>

\* DataManager.load_data, on the main thread
LoadData(path) ==
    /\ Len(loaders) < MaxLoaders
    /\ loaders' = Append(loaders, new_loader(path))
    /\ Becomes("load_data", Outcome(Self, <<>>, FALSE, NoReturn))
    /\ UNCHANGED <<disk, events, widgets>>

\* DataManager.load_data called again while a loader it started is still running
LoadDataAgain(path) ==
    /\ \E i \in DOMAIN loaders : loaders[i].pc \in {"NotStarted", "Parsing", "Deriving"}
    /\ Len(loaders) <= MaxLoaders
    /\ loaders' = Append(loaders, new_loader(path))
    /\ Becomes("load_data", Outcome(Self, <<>>, FALSE, NoReturn))
    /\ UNCHANGED <<disk, events, widgets>>

\* a step of a loader thread; its finished signal is queued to the main thread
LoaderRuns(i) ==
    /\ loaders[i].pc \in {"NotStarted", "Parsing", "Deriving"}
    /\ LET t == loader_step(loaders[i], disk[loaders[i].file_path])
       IN  /\ loaders' = [loaders EXCEPT ![i] = [t EXCEPT !.frame = Frame({}, <<>>)]]
           /\ events' = events \o queued(i, loaders[i], t)
    /\ UNCHANGED <<disk, df, filtered_df, columns, heap, _filters, signals, last, raised,
                   ret, widgets>>

\* the main thread's event loop delivers a queued finished(df) to _on_data_loaded
DeliverFinished ==
    /\ events # <<>>
    /\ Head(events).signal = "finished"
    /\ Becomes("_on_data_loaded", _on_data_loaded(Self, Head(events).frame))
    /\ events' = Tail(events)
    /\ loaders' = [loaders EXCEPT ![Head(events).loader].delivered = Append(@, "finished")]
    /\ UNCHANGED <<disk, widgets>>

\* the most single-shot timers of the MainWindow that wait at one time
MaxPending == 2

manager == <<disk, df, filtered_df, columns, heap, _filters, signals, last, raised, ret,
             loaders, events>>

\* the filters_changed emissions among the signals a handler of the panel emitted
filters_changed(out) == SelectSeq(out, LAMBDA e : e.signal = "filters_changed")

\* MainWindow._on_filters_changed, the slot of filters_changed, for each emission of a
\* handler: the overlay is shown and _apply_filters(filters) is set to run 50 ms later
_on_filters_changed(out) ==
    /\ Len(pending) + Len(filters_changed(out)) <= MaxPending
    /\ overlay' = IF filters_changed(out) # <<>> THEN TRUE ELSE overlay
    /\ pending' = pending \o [k \in DOMAIN filters_changed(out) |->
                                  ApplyTimer(filters_changed(out)[k].arg)]

\* a handler of the panel ran to its end and left `p`
PanelBecomes(p) ==
    /\ panel' = p.w
    /\ timer' = IF p.restarted THEN Interval ELSE timer
    /\ quiet' = IF p.w # panel \/ p.restarted THEN 0 ELSE quiet
    /\ unreported' = IF filters_changed(p.out) # <<>> THEN FALSE
                     ELSE unreported \/ get_filters(p.w) # get_filters(panel)
    /\ emitted' = p.out
    /\ _on_filters_changed(p.out)

\* a control was changed, or made to emit its signal
Changes(p) == p.w # panel \/ p.restarted

\* the user toggles a borough check box
ToggleBorough(box) ==
    /\ PanelBecomes(borough_setChecked(Handling(panel), box,
                                       box \notin panel.neighbourhood_filter))
    /\ UNCHANGED manager

\* the user picks an item of the neighbourhood combo
SelectNeighbourhood(i) ==
    /\ i \in 0..Len(panel.neighbourhood_items)
    /\ i # panel.neighbourhood
    /\ PanelBecomes(neighbourhood_setCurrentIndex(Handling(panel), i))
    /\ UNCHANGED manager

\* the user toggles a room type check box
ToggleRoom(box) ==
    /\ PanelBecomes(room_setChecked(Handling(panel), box, box \notin panel.room_filter))
    /\ UNCHANGED manager

\* the user edits the minimum price
EditMin(v) ==
    /\ Changes(price_filter_does(Handling(panel), min_input_setValue(panel.price_filter, v)))
    /\ PanelBecomes(price_filter_does(Handling(panel),
                                      min_input_setValue(panel.price_filter, v)))
    /\ UNCHANGED manager

\* the user edits the maximum price
EditMax(v) ==
    /\ Changes(price_filter_does(Handling(panel), max_input_setValue(panel.price_filter, v)))
    /\ PanelBecomes(price_filter_does(Handling(panel),
                                      max_input_setValue(panel.price_filter, v)))
    /\ UNCHANGED manager

\* the user drags a handle of the price slider to `value`
Drag(control, value) ==
    /\ Changes(price_filter_does(Handling(panel),
                                 mouseMoveEvent(panel.price_filter, control, value)))
    /\ PanelBecomes(price_filter_does(Handling(panel),
                                      mouseMoveEvent(panel.price_filter, control, value)))
    /\ UNCHANGED manager

\* a call of set_values of the price filter
SetValues(min_val, max_val) ==
    /\ min_val <= max_val
    /\ Changes(price_filter_does(Handling(panel),
                                 set_values(panel.price_filter, min_val, max_val)))
    /\ PanelBecomes(price_filter_does(Handling(panel),
                                      set_values(panel.price_filter, min_val, max_val)))
    /\ UNCHANGED manager

\* the user edits the minimum reviews, or moves its slider
EditReviews(v) ==
    /\ Changes(reviews_input_setValue(Handling(panel), v))
    /\ PanelBecomes(reviews_input_setValue(Handling(panel), v))
    /\ UNCHANGED manager

SlideReviews(v) ==
    /\ Changes(reviews_slider_setValue(Handling(panel), v))
    /\ PanelBecomes(reviews_slider_setValue(Handling(panel), v))
    /\ UNCHANGED manager

\* the user edits the maximum nights, or moves its slider
EditNights(v) ==
    /\ Changes(nights_input_setValue(Handling(panel), v))
    /\ PanelBecomes(nights_input_setValue(Handling(panel), v))
    /\ UNCHANGED manager

SlideNights(v) ==
    /\ Changes(nights_slider_setValue(Handling(panel), v))
    /\ PanelBecomes(nights_slider_setValue(Handling(panel), v))
    /\ UNCHANGED manager

\* the user picks an item of the host category combo
SelectHost(i) ==
    /\ i \in 0..(Len(panel.host_category_items) - 1)
    /\ i # panel.host_category
    /\ PanelBecomes(host_category_setCurrentIndex(Handling(panel), i))
    /\ UNCHANGED manager

\* the user toggles the commercial-only check box
ToggleCommercial ==
    /\ PanelBecomes(commercial_setChecked(Handling(panel), ~panel.commercial_checkbox))
    /\ UNCHANGED manager

\* apply_btn.clicked: _emit_filters
ClickApply ==
    /\ PanelBecomes(_emit_filters(Handling(panel)))
    /\ UNCHANGED manager

\* reset_btn.clicked: reset_filters
ClickReset ==
    /\ PanelBecomes(reset_filters(Handling(panel)))
    /\ UNCHANGED manager

\* 100 ms pass, the single-shot timers of the window having fired; the debounce timer
\* times out at the end of its interval and runs _emit_filters
Tick ==
    /\ pending = <<>>
    /\ timer > 0 \/ quiet <= Interval
    /\ timer' = IF timer > 0 THEN timer - 1 ELSE 0
    /\ quiet' = min(quiet + 1, Interval + 1)
    /\ IF timer = 1
       THEN /\ emitted' = _emit_filters(Handling(panel)).out
            /\ unreported' = FALSE
            /\ _on_filters_changed(_emit_filters(Handling(panel)).out)
       ELSE /\ emitted' = <<>>
            /\ UNCHANGED <<unreported, overlay, pending>>
    /\ UNCHANGED <<manager, panel>>

\* the pending timers without the k-th
fired(k) == SubSeq(pending, 1, k - 1) \o SubSeq(pending, k + 1, Len(pending))

\* whether a handler of the manager emitted the signal
emits(out, signal) == \E k \in DOMAIN out.signals : out.signals[k] = signal

\* the single shot of _load_data fires: MainWindow._do_load_data, and _on_data_loaded
\* as the slot of data_loaded
DoLoadData ==
    \E k \in DOMAIN pending :
        /\ pending[k].kind = "load"
        /\ Becomes("load_data_sync", load_data_sync(Self, disk["AB_NYC_2019_csv"]))
        /\ pending' = fired(k)
        /\ IF emits(load_data_sync(Self, disk["AB_NYC_2019_csv"]), "data_loaded")
           THEN LET p == set_host_category_options(Handling(panel), get_host_categories)
                IN  /\ overlay' = FALSE
                    /\ panel' = p.w
                    /\ timer' = Interval
                    /\ quiet' = 0
                    /\ unreported' = (unreported \/ get_filters(p.w) # get_filters(panel))
                    /\ emitted' = p.out
           ELSE /\ overlay' = (overlay /\ ~load_data_sync(Self, disk["AB_NYC_2019_csv"]).raised)
                /\ UNCHANGED <<panel, timer, quiet, unreported, emitted>>
        /\ UNCHANGED <<disk, loaders, events>>

\* the earliest single shot of _on_filters_changed fires: MainWindow._apply_filters,
\* and _on_data_filtered or _on_filters_empty as the slot of the signal emitted
FireApply ==
    \E k \in DOMAIN pending :
        /\ pending[k].kind = "apply"
        /\ \A j \in 1..(k - 1) : pending[j].kind # "apply"
        /\ Becomes("apply_filters", apply_filters(Self, pending[k].filters))
        /\ pending' = fired(k)
        /\ overlay' = (overlay /\ ~emits(apply_filters(Self, pending[k].filters), "data_filtered")
                               /\ ~emits(apply_filters(Self, pending[k].filters),
                                         "filters_resulted_empty"))
        /\ UNCHANGED <<disk, loaders, events, panel, timer, quiet, unreported, emitted>>

Next ==
    \/ LoadDataSync("AB_NYC_2019_csv")
    \/ \E filters \in FilterSpecs : ApplyFilters(filters)

Init == InitOver(FilterFiles)

\* the filter behaviours: one file, every filter dict
Spec == Init /\ [][Next]_vars

NextClean ==
    \/ LoadDataSync("AB_NYC_2019_csv")
    \/ \E filters \in FewSpecs : ApplyFilters(filters)

InitClean == InitOver(CleaningFiles)

\* the cleaning behaviours: files with every kind of row that cleaning drops
SpecClean == InitClean /\ [][NextClean]_vars

\* the arguments the query behaviours pass
BoroughArgList ==
    <<Str("all"), NoneArg, List({}), List({"Manhattan"}), List({"Manhattan", "Brooklyn"}),
      Str("Brooklyn"), Str("Bronx")>>
BoroughArgs == {BoroughArgList[k] : k \in DOMAIN BoroughArgList}
SampleSizes == {1, 3000}

NextQuery ==
    \/ \E path \in Paths : LoadDataSync(path)
    \/ \E filters \in FewSpecs : ApplyFilters(filters)
    \/ GetStats
    \/ GetNeighbourhoodStats
    \/ GetRoomTypeStats
    \/ GetPriceDistribution
    \/ \E n \in TopNs : GetTopHosts(n)
    \/ \E n \in TopNs : GetTopValueListings(n)
    \/ GetCommercialStats
    \/ \E top_n \in TopNs : GetRoiData(top_n)
    \/ \E observed \in BOOLEAN : GetHostCategoryStats(observed)
    \/ GetMonthlyReviewTrend
    \/ \E borough \in BoroughArgs : GetNeighbourhoodsForBorough(borough)
    \/ \E sample_size \in SampleSizes : GetMapData(sample_size)
    \/ GetMissingDataStats
    \/ GetDataQualityScore
    \/ GetUncertaintyIndicators
    \/ ExportToCsv

\* the files the query behaviours load: the filter files and a file whose only row
\* cleaning drops
QueryFiles == FilterFiles \cup {Csv(<<RowCheap>>)}

InitQuery == InitOver(QueryFiles)

\* the query behaviours: every path, the queries and the export
SpecQuery == InitQuery /\ [][NextQuery]_vars

NextSchema ==
    \/ LoadDataSync("AB_NYC_2019_csv")
    \/ \E filters \in FewSpecs : ApplyFilters(filters)
    \/ GetRoomTypeStats
    \/ \E n \in TopNs : GetTopValueListings(n)
    \/ GetMissingDataStats
    \/ ExportToCsv

InitSchema == InitOver(SchemaFiles)

\* the schema behaviours: files that lack a column
SpecSchema == InitSchema /\ [][NextSchema]_vars

\* the files the ranking behaviours load: long enough for hosts and segments with
\* different counts
RankFiles == {Csv(rows) : rows \in SeqsUpTo(ValidRows \cup {RowE}, MaxRows + 1)}

RankNs == {1, 2, 10}

NextRank ==
    \/ LoadDataSync("AB_NYC_2019_csv")
    \/ \E filters \in FewSpecs : ApplyFilters(filters)
    \/ \E n \in RankNs : GetTopHosts(n)
    \/ \E n \in RankNs : GetTopValueListings(n)
    \/ \E top_n \in RankNs : GetRoiData(top_n)

InitRank == InitOver(RankFiles)

\* the ranking behaviours: the three ranked queries on views of up to three rows
SpecRank == InitRank /\ [][NextRank]_vars

NextExport ==
    \/ LoadDataSync("AB_NYC_2019_csv")
    \/ \E filters \in FewSpecs : ApplyFilters(filters)
    \/ ExportToCsv

InitExport == InitOver(ExportFiles)

\* the export behaviours: views of named, unnamed and numeral-named listings, and
\* views that lack an export column
SpecExport == InitExport /\ [][NextExport]_vars

NextMissing ==
    \/ LoadDataSync("AB_NYC_2019_csv")
    \/ \E filters \in FewSpecs : ApplyFilters(filters)
    \/ GetMissingDataStats

InitMissing == InitOver(MissingFiles)

\* the missing-data behaviours
SpecMissing == InitMissing /\ [][NextMissing]_vars

\* the dicts the host behaviours apply: the wide one, and one for each host category
HostSpecs ==
    {WideSpec} \cup {With(WideSpec, "host_category", HostLabels[k]) : k \in DOMAIN HostLabels}

NextHost ==
    \/ LoadDataSync("AB_NYC_2019_csv")
    \/ \E filters \in HostSpecs : ApplyFilters(filters)
    \/ \E observed \in BOOLEAN : GetHostCategoryStats(observed)

InitHost == InitOver(HostFiles)

\* the host behaviours: the two host columns, the host filter and the host query
SpecHost == InitHost /\ [][NextHost]_vars

\* the prices the slider behaviours enter and drag to
PriceValues == {10, 100, 150}

NextSlider ==
    \/ \E v \in PriceValues : EditMin(v)
    \/ \E v \in PriceValues : EditMax(v)
    \/ \E control \in {"low", "high"}, v \in PriceValues : Drag(control, v)
    \/ \E min_val, max_val \in PriceValues : SetValues(min_val, max_val)
    \/ Tick
    \/ DoLoadData
    \/ FireApply

InitSlider == InitOver({Csv(<<RowA, RowB>>)})

\* the slider behaviours: the price filter edited, dragged and set, in the window
SpecSlider == InitSlider /\ [][NextSlider]_vars

NextPanel ==
    \/ ToggleBorough("Manhattan")
    \/ SelectNeighbourhood(1)
    \/ EditReviews(5)
    \/ SlideReviews(9)
    \/ ClickApply
    \/ Tick
    \/ DoLoadData
    \/ FireApply

InitPanel == InitOver({Csv(<<RowA>>)})

\* the panel behaviours: the boroughs, the neighbourhood and the reviews changed and
\* Apply clicked, in the window
SpecPanel == InitPanel /\ [][NextPanel]_vars

NextReset ==
    \/ EditMin(10)
    \/ EditMax(50)
    \/ SlideNights(7)
    \/ ClickReset
    \/ Tick
    \/ DoLoadData
    \/ FireApply

InitReset == InitOver({Csv(<<RowA>>)})

\* the reset behaviours: the price and the nights changed and Reset clicked, in the
\* window
SpecReset == InitReset /\ [][NextReset]_vars

NextControls ==
    \/ ToggleRoom("Shared room")
    \/ \E v \in {7, 30} : EditNights(v)
    \/ \E i \in 0..1 : SelectHost(i)
    \/ ToggleCommercial
    \/ Tick
    \/ DoLoadData
    \/ FireApply

InitControls == InitOver({Csv(<<RowA>>)})

\* the control behaviours: the other controls of the panel changed, in the window
SpecControls == InitControls /\ [][NextControls]_vars

NextWindow ==
    \/ ToggleBorough("Manhattan")
    \/ ToggleCommercial
    \/ ClickApply
    \/ Tick
    \/ DoLoadData
    \/ FireApply

\* the files the window behaviours start with: a complete file, a file that cannot be
\* read, and a file without its price column
WindowFiles == {Csv(<<RowA, RowB>>), OtherDisk.missing_csv, OtherDisk.no_price_csv}

InitWindow == InitOver(WindowFiles)

\* the window behaviours: the start-up load, good or failing, and the filters applied
SpecWindow == InitWindow /\ [][NextWindow]_vars

\* the paths of the reload behaviours: two files that load
ReloadPaths == {"AB_NYC_2019_csv", "other_csv"}

NextReload ==
    \/ \E path \in ReloadPaths : LoadData(path)
    \/ \E path \in ReloadPaths : LoadDataAgain(path)
    \/ \E i \in DOMAIN loaders : LoaderRuns(i)
    \/ DeliverFinished

InitReload == InitOver(LoaderFiles)

\* the reload behaviours: load_data called again before the running load has finished
SpecReload == InitReload /\ [][NextReload]_vars

NextLoader ==
    \/ \E path \in Paths : LoadData(path)
    \/ \E i \in DOMAIN loaders : LoaderRuns(i)
    \/ DeliverFinished
    \/ LoadDataSync("AB_NYC_2019_csv")
    \/ \E filters \in LoaderSpecs : ApplyFilters(filters)
    \/ ExportToCsv

InitLoader == InitOver(LoaderFiles)

\* the loader behaviours: background loads beside the main thread's handlers
SpecLoader == InitLoader /\ [][NextLoader]_vars

----------------------------------------------------------------------------
(* What the claims speak of *)

Loaded == df # None
BaseRows == heap[df]
ViewRows == heap[filtered_df]
MainFile == disk["AB_NYC_2019_csv"]

\* the row test of the filter contract: every clause holds, a clause whose field is
\* missing or empty holding of every row
Retained(r, f) ==
    /\ ("neighbourhood_group" \in DOMAIN f /\ f["neighbourhood_group"] # {})
           => r.neighbourhood_group \in f["neighbourhood_group"]
    /\ ("neighbourhood" \in DOMAIN f /\ f["neighbourhood"] \notin {"all", "", None})
           => r.neighbourhood = f["neighbourhood"]
    /\ ("room_type" \in DOMAIN f /\ f["room_type"] # {})
           => r.room_type \in f["room_type"]
    /\ "price_range" \in DOMAIN f
           => (f["price_range"][1] <= r.price[1] /\ r.price[1] <= f["price_range"][2])
    /\ "min_nights" \in DOMAIN f => r.minimum_nights <= f["min_nights"]
    /\ ("min_reviews" \in DOMAIN f /\ f["min_reviews"] > 0)
           => r.number_of_reviews >= f["min_reviews"]
    /\ ("host_category" \in DOMAIN f /\ f["host_category"] \notin {"all", "", None})
           => r.host_category = Cell(f["host_category"])
    /\ ("commercial_only" \in DOMAIN f /\ f["commercial_only"]) => r.is_commercial

Matching(rows, f) == SelectSeq(rows, LAMBDA r : Retained(r, f))

\* C1: after an apply_filters call whose dict matches at least one base row, the view
\* holds exactly the base rows that pass every clause of the dict, a missing or empty
\* field restricting nothing
C1_ViewIsTheMatchingRows ==
    (last = "apply_filters" /\ Loaded /\ Matching(BaseRows, _filters) # <<>>)
        => ViewRows = Matching(BaseRows, _filters)

\* two fields of the dict are tight, and each of them drops a row the other keeps
C1_Witness ==
    /\ last = "apply_filters"
    /\ Loaded
    /\ _filters = With(With(WideSpec, "room_type", {"Private room"}), "min_nights", 7)
    /\ Len(BaseRows) = 2
    /\ Len(ViewRows) = 1
    /\ \E i \in DOMAIN BaseRows : BaseRows[i].room_type = "Entire home/apt"

\* an apply_filters call on a loaded manager that matched no base row
EmptyApply ==
    /\ last' = "apply_filters"
    /\ Loaded
    /\ Matching(BaseRows, _filters') = <<>>

\* C2: an apply_filters call that matches no base row leaves the view as it was, emits
\* filters_resulted_empty once and does not emit data_filtered
C2_EmptyResultKeepsTheView ==
    [][EmptyApply =>
          /\ filtered_df' = filtered_df
          /\ heap'[filtered_df'] = ViewRows
          /\ signals' = <<"filters_resulted_empty">>]_vars

\* the Manhattan view was kept when the Bronx matched nothing
C2_Witness ==
    /\ last = "apply_filters"
    /\ signals = <<"filters_resulted_empty">>
    /\ _filters = With(WideSpec, "neighbourhood_group", {"Bronx"})
    /\ Len(ViewRows) = 1
    /\ Len(BaseRows) = 2
    /\ ViewRows[1].neighbourhood_group = "Manhattan"

\* C3: every apply_filters call on a loaded manager emits exactly one signal:
\* data_filtered, with the view replaced by the result, iff a base row matches, and
\* filters_resulted_empty iff none does
C3_ExactlyOneSignal ==
    (last = "apply_filters" /\ Loaded) =>
        IF Matching(BaseRows, _filters) # <<>>
        THEN signals = <<"data_filtered">> /\ filtered_df # df
             /\ Len(ViewRows) = Len(Matching(BaseRows, _filters))
        ELSE signals = <<"filters_resulted_empty">>

\* the first apply after a load matched nothing: the view is still the base object
C3_Witness ==
    /\ last = "apply_filters"
    /\ Loaded
    /\ signals = <<"filters_resulted_empty">>
    /\ filtered_df = df
    /\ Len(BaseRows) = 2

\* what survives cleaning: the row test of the data model
Valid(r) ==
    /\ notnull(r.price) /\ notnull(r.latitude) /\ notnull(r.longitude)
    /\ PriceLow <= r.price[1] /\ r.price[1] <= PriceHigh
    /\ r.minimum_nights < MaxMinimumNights

\* the raw row a cleaned row came from
RawOf(r) == MainFile.rows[r.idx + 1]

\* C4: every row of the base dataset and of every view is valid, and the base dataset
\* holds the valid rows of the file, each with the price and nights the file gives
\* (dropped, not clipped)
C4_OnlyValidRowsSurvive ==
    Loaded =>
        /\ \A i \in DOMAIN BaseRows : Valid(BaseRows[i])
        /\ \A i \in DOMAIN ViewRows : Valid(ViewRows[i])
        /\ {BaseRows[i].idx : i \in DOMAIN BaseRows}
               = {j - 1 : j \in {k \in DOMAIN MainFile.rows : Valid(MainFile.rows[k])}}
        /\ \A i \in DOMAIN BaseRows :
               /\ BaseRows[i].price = RawOf(BaseRows[i]).price
               /\ BaseRows[i].minimum_nights = RawOf(BaseRows[i]).minimum_nights

\* a file with a row that is dropped and a row that is kept, loaded and filtered
C4_Witness ==
    /\ last = "apply_filters"
    /\ signals = <<"data_filtered">>
    /\ Len(MainFile.rows) = 2
    /\ MainFile.rows[1].minimum_nights = 31
    /\ Len(BaseRows) = 1
    /\ Len(ViewRows) = 1

\* C5: in the base dataset and in every view, is_commercial is true exactly of the rows
\* with availability_365 > 300 or calculated_host_listings_count > 5
C5_CommercialFlag ==
    Loaded =>
        \A rows \in {BaseRows, ViewRows} : \A i \in DOMAIN rows :
            rows[i].is_commercial
                <=> (rows[i].availability_365 > 300
                     \/ rows[i].calculated_host_listings_count > 5)

\* a filtered view with a row at availability 300 and 5 listings, not commercial, and
\* a base row that is commercial
C5_Witness ==
    /\ last = "apply_filters"
    /\ signals = <<"data_filtered">>
    /\ \E i \in DOMAIN ViewRows :
           /\ ViewRows[i].availability_365 = 300
           /\ ViewRows[i].calculated_host_listings_count = 5
           /\ ~ViewRows[i].is_commercial
    /\ \E i \in DOMAIN BaseRows :
           BaseRows[i].availability_365 = 301 /\ BaseRows[i].is_commercial

\* the base dataset and the view as values: whether there is one, and its rows
BaseValue == [loaded |-> df # None, rows |-> IF df = None THEN <<>> ELSE heap[df]]
ViewValue ==
    [loaded |-> filtered_df # None,
     rows |-> IF filtered_df = None THEN <<>> ELSE heap[filtered_df]]

Queries ==
    {"get_stats", "get_neighbourhood_stats", "get_room_type_stats",
     "get_price_distribution", "get_top_hosts", "get_top_value_listings",
     "get_commercial_stats", "get_roi_data", "get_host_category_stats",
     "get_monthly_review_trend", "get_neighbourhoods_for_borough", "get_map_data",
     "get_missing_data_stats", "get_data_quality_score", "get_uncertainty_indicators",
     "export_to_csv"}
Loads == {"load_data_sync", "_on_data_loaded"}

ViewAfterIn(self, filters) ==
    LET after == apply_filters(self, filters).self
    IN  after.heap[after.filtered_df]
ViewAfter(filters) == ViewAfterIn(Self, filters)

\* the number of base rows the code's mask keeps for a dict
MatchCount(filters) == Len(select(BaseRows, filter_mask(BaseRows, filters)))

\* C7: once a dict has been applied, applying the same dict again leaves the same rows
\* in the view, whether the dict matches rows or matches none
C7_ApplyingTwiceIsApplyingOnce ==
    (last = "apply_filters" /\ Loaded) => ViewAfter(_filters) = ViewRows

\* a dict that matches nothing was applied to a narrowed view, which was kept
C7_Witness ==
    /\ last = "apply_filters"
    /\ _filters = [k \in FilterKeys |-> TightValue(k)]
    /\ signals = <<"filters_resulted_empty">>
    /\ filtered_df # df
    /\ Len(ViewRows) < Len(BaseRows)

\* the values of field k that restrict nothing
IsWide(f, k) == k \notin DOMAIN f \/ f[k] = WideValue(k) \/ f[k] \in EmptyValues(k)

\* tight is wide with the one field k tightened: fewer (but some) boroughs or room
\* types, a narrower price range, fewer nights, more reviews, a specific neighbourhood
\* or host category, commercial_only switched on
TightensAt(wide, tight, k) ==
    /\ IsWide(wide, k)
    /\ tight \in {With(wide, k, TightValue(k)), With(wide, k, AbsentValue(k))}
    /\ k \in DOMAIN wide \/ tight = With(WideSpec, k, TightValue(k))

TightenPairs ==
    {pair \in {q : q \in FilterSpecs \X FilterSpecs} :
        \E k \in FilterKeys : TightensAt(pair[1], pair[2], k)}

\* C8 as claimed: in every state, the view after applying the tightened dict has no
\* more rows than the view after applying the wider dict in the same state
C8_AsClaimed ==
    Loaded => \A pair \in TightenPairs :
                 Len(ViewAfter(pair[2])) <= Len(ViewAfter(pair[1]))

\* C8, amended: the tightened dict never matches more base rows than the wider one,
\* and whenever it matches at least one row the view it leaves has no more rows than
\* the view the wider dict leaves
C8_TighteningNeverMatchesMore ==
    Loaded => \A pair \in TightenPairs :
                 /\ MatchCount(pair[2]) <= MatchCount(pair[1])
                 /\ MatchCount(pair[2]) > 0
                        => Len(ViewAfter(pair[2])) <= Len(ViewAfter(pair[1]))

\* after an apply_filters call, a tightening that keeps one of two matching rows
C8_Witness ==
    /\ last = "apply_filters"
    /\ Loaded
    /\ \E pair \in TightenPairs :
           /\ pair[1] = _filters
           /\ MatchCount(pair[1]) = 2
           /\ MatchCount(pair[2]) = 1
           /\ Len(ViewAfter(pair[2])) = 1

\* a manager with the same base dataset and no filter history
FreshManager ==
    [df |-> "o1", filtered_df |-> "o1", columns |-> columns, heap |-> "o1" :> BaseRows,
     _filters |-> EmptyDict]

\* C9: for a dict that matches at least one base row, the view apply_filters leaves is
\* the same from the current state as from a manager that holds the same base dataset
\* and was never filtered
C9_ViewDependsOnBaseAndDictOnly ==
    Loaded => \A filters \in FilterSpecs :
                 MatchCount(filters) > 0
                     => ViewAfter(filters) = ViewAfterIn(FreshManager, filters)

\* a narrowed view from which the wide dict brings every base row back
C9_Witness ==
    /\ last = "apply_filters"
    /\ signals = <<"data_filtered">>
    /\ Len(BaseRows) = 2
    /\ Len(ViewRows) = 1
    /\ Len(ViewAfter(WideSpec)) = 2

\* one call of a catalog query: its name and its argument (0 for none)
Call(name, arg) == [name |-> name, arg |-> arg]

\* the calls of the fifteen catalog queries the behaviours make (the borough arguments
\* by their place in BoroughArgList, the groupby default as 0 or 1)
CatalogCalls ==
    {Call(name, 0) : name \in {"get_stats", "get_neighbourhood_stats",
                               "get_room_type_stats", "get_price_distribution",
                               "get_commercial_stats", "get_monthly_review_trend",
                               "get_missing_data_stats", "get_data_quality_score",
                               "get_uncertainty_indicators"}}
    \cup {Call(name, n) : name \in {"get_top_hosts", "get_top_value_listings",
                                    "get_roi_data"}, n \in TopNs}
    \cup {Call("get_host_category_stats", b) : b \in {0, 1}}
    \cup {Call("get_neighbourhoods_for_borough", k) : k \in DOMAIN BoroughArgList}
    \cup {Call("get_map_data", size) : size \in SampleSizes}

\* what the call leaves when it is made on `self`
Result(self, c) ==
    CASE c.name = "get_stats" -> get_stats(self)
      [] c.name = "get_neighbourhood_stats" -> get_neighbourhood_stats(self)
      [] c.name = "get_room_type_stats" -> get_room_type_stats(self)
      [] c.name = "get_price_distribution" -> get_price_distribution(self)
      [] c.name = "get_top_hosts" -> get_top_hosts(self, c.arg)
      [] c.name = "get_top_value_listings" -> get_top_value_listings(self, c.arg)
      [] c.name = "get_commercial_stats" -> get_commercial_stats(self)
      [] c.name = "get_roi_data" -> get_roi_data(self, c.arg)
      [] c.name = "get_host_category_stats" -> get_host_category_stats(self, c.arg = 1)
      [] c.name = "get_monthly_review_trend" -> get_monthly_review_trend(self)
      [] c.name = "get_neighbourhoods_for_borough" ->
             get_neighbourhoods_for_borough(self, BoroughArgList[c.arg])
      [] c.name = "get_map_data" -> get_map_data(self, c.arg)
      [] c.name = "get_missing_data_stats" -> get_missing_data_stats(self)
      [] c.name = "get_data_quality_score" -> get_data_quality_score(self)
      [] c.name = "get_uncertainty_indicators" -> get_uncertainty_indicators(self)

CatalogQueries == {c.name : c \in CatalogCalls}

\* a manager on which no load has completed
Unloaded ==
    [df |-> None, filtered_df |-> None, columns |-> {}, heap |-> EmptyDict,
     _filters |-> EmptyDict]

\* the designated no-data results: the empty mapping, the empty table, the empty
\* arrays, the empty list, the zero score
NoData(r) ==
    CASE r.kind = "dict" ->
             r.items = EmptyDict
                 \/ (DOMAIN r.items = {"score", "details"} /\ r.items.score = 0
                     /\ r.items.details = EmptyDict)
      [] r.kind = "frame" -> r.columns = <<>> /\ r.rows = <<>>
      [] r.kind = "arrays" -> r.hist = <<>> /\ r.bins = <<>>
      [] r.kind = "list" -> r.items = <<>>
      [] OTHER -> FALSE

\* before any load has completed a catalog query returns its no-data result and does
\* not raise
NoDataBeforeLoad == (~Loaded /\ last \in CatalogQueries) => (~raised /\ NoData(ret))

\* a catalog query was answered on a manager whose only load failed
NoDataBeforeLoad_Witness ==
    /\ ~Loaded
    /\ last = "get_data_quality_score"
    /\ NoData(ret)

\* C11: before any load has completed every catalog query returns its no-data result
\* without raising, and on a loaded dataset whose view has no row every query returns
\* something else than on a manager that never loaded
C11_NoDataIsDistinguishable ==
    /\ NoDataBeforeLoad
    /\ (Loaded /\ ViewRows = <<>>) =>
           \A c \in CatalogCalls : Result(Self, c).ret # Result(Unloaded, c).ret

\* the result of the query `name` holds an undefined value (NaN)
Undefined(name, r) ==
    CASE name = "get_stats" ->
             r.items # EmptyDict
                 /\ \E k \in {"avg_price", "median_price", "avg_reviews", "avg_availability"} :
                        isnull(r.items[k])
      [] name = "get_data_quality_score" ->
             isnull(r.items.score) \/ isnull(r.items.completeness)
      [] name = "get_uncertainty_indicators" ->
             r.items # EmptyDict
                 /\ \E metric \in {"price", "revenue"} :
                        \E k \in {"mean", "ci_lower", "ci_upper", "margin_of_error"} :
                            isnull(r.items[metric][k])
      [] OTHER -> FALSE

\* C12: on a loaded dataset whose view has no row, a catalog query does not fail and
\* its result holds no undefined value
C12_EmptyViewGivesDefinedResults ==
    (Loaded /\ ViewRows = <<>> /\ last \in CatalogQueries)
        => (~raised /\ ~Undefined(last, ret))

\* the columns the spec requires of an input file
RequiredColumns ==
    {"price", "minimum_nights", "latitude", "longitude", "availability_365",
     "calculated_host_listings_count", "host_id", "number_of_reviews", "room_type",
     "neighbourhood_group", "neighbourhood"}

\* a file without a column that process_dataframe indexes is not loaded
LoadFailsWithoutAccessedColumn ==
    ~(AccessedColumns \subseteq MainFile.columns)
        => (~Loaded /\ (last = "load_data_sync" => raised /\ signals = <<>>))

\* the load of the file without availability_365 raised
LoadFailsWithoutAccessedColumn_Witness ==
    /\ last = "load_data_sync"
    /\ "availability_365" \notin MainFile.columns
    /\ raised

\* C13: a file that lacks one of the eleven required columns is not loaded: the load
\* raises and no dataset is published
C13_MissingRequiredColumnFailsTheLoad ==
    ~(RequiredColumns \subseteq MainFile.columns)
        => (~Loaded /\ (last = "load_data_sync" => raised /\ signals = <<>>))

\* what a loader has emitted when it is in each of its states
EmittedAt(pc) ==
    CASE pc = "NotStarted" -> {<<>>}
      [] pc = "Parsing" -> {<<"progress(10)">>}
      [] pc = "Deriving" -> {<<"progress(10)", "progress(50)">>}
      [] pc = "Done" -> {<<"progress(10)", "progress(50)", "progress(100)", "finished">>}
      [] pc = "Failed" -> {<<"progress(10)", "error">>,
                           <<"progress(10)", "progress(50)", "error">>}

\* the moves of a loader
LoaderMoves ==
    {<<"NotStarted", "Parsing">>, <<"Parsing", "Deriving">>, <<"Deriving", "Done">>,
     <<"Parsing", "Failed">>, <<"Deriving", "Failed">>}

\* C15: every loader emits progress 10, 50, 100 in this order, each at most once, then
\* one terminal event, finished only after progress 100, or error, and nothing after
\* it; it moves NotStarted -> Parsing -> Deriving -> Done, or to Failed from Parsing or
\* Deriving, and stays in Done or Failed
C15_LoaderMilestonesInOrder ==
    /\ [](\A i \in DOMAIN loaders : loaders[i].emitted \in EmittedAt(loaders[i].pc))
    /\ [][\A i \in DOMAIN loaders :
             <<loaders'[i].pc, loaders'[i].emitted>> # <<loaders[i].pc, loaders[i].emitted>> =>
                 /\ <<loaders[i].pc, loaders'[i].pc>> \in LoaderMoves
                 /\ \E more \in {<<"progress(10)">>, <<"progress(50)">>, <<"error">>,
                                 <<"progress(100)", "finished">>} :
                        loaders'[i].emitted = loaders[i].emitted \o more]_vars

\* a loader failed while deriving: the file has no price column
C15_Witness ==
    \E i \in DOMAIN loaders :
        /\ loaders[i].pc = "Failed"
        /\ loaders[i].emitted = <<"progress(10)", "progress(50)", "error">>

\* the signal of loader i has reached a slot, or is queued for one
Reported(i, sig) ==
    \/ \E k \in DOMAIN loaders[i].delivered : loaders[i].delivered[k] = sig
    \/ \E k \in DOMAIN events : events[k].loader = i /\ events[k].signal = sig

\* a load that succeeded is reported: its finished signal is queued or delivered
FinishedLoadIsReported ==
    \A i \in DOMAIN loaders : loaders[i].pc = "Done" => Reported(i, "finished")

\* C16: a background load that has failed is reported: its error has reached, or is on
\* its way to, a handler of the DataManager or of its client
C16_FailedLoadIsReported ==
    \A i \in DOMAIN loaders : loaders[i].pc = "Failed" => Reported(i, "error")

\* the hosts of the view, the number of view rows of a host, the place of its first row
ViewHosts == {ViewRows[i].host_id : i \in DOMAIN ViewRows}
ListingCount(h) == Cardinality({i \in DOMAIN ViewRows : ViewRows[i].host_id = h})
FirstRow(h) == CHOOSE i \in DOMAIN ViewRows :
                   ViewRows[i].host_id = h /\ \A j \in 1..(i - 1) : ViewRows[j].host_id # h

Min(a, b) == IF a < b THEN a ELSE b

\* the rows get_top_hosts(n) returns in the current state
TopHosts(n) == get_top_hosts(Self, n).ret.rows

\* what C17 says of the result apart from the order of ties: min(n, hosts) distinct
\* hosts of the view, each with its number of view rows, in non-increasing order of
\* that number, no host left out having more than a host returned
TopHostsRanked(n) ==
    LET res == TopHosts(n)
    IN  /\ Len(res) = Min(n, Cardinality(ViewHosts))
        /\ \A k \in DOMAIN res :
               /\ res[k].host_id \in ViewHosts
               /\ res[k].listing_count = ListingCount(res[k].host_id)
        /\ \A k, l \in DOMAIN res :
               k < l => /\ res[k].host_id # res[l].host_id
                        /\ res[k].listing_count >= res[l].listing_count
        /\ \A h \in ViewHosts \ {res[k].host_id : k \in DOMAIN res} :
               \A k \in DOMAIN res : ListingCount(h) <= res[k].listing_count

\* C17 as claimed: hosts with equal counts appear in the order of their first rows in
\* the view
C17_AsClaimed ==
    Loaded => \A n \in RankNs :
        /\ TopHostsRanked(n)
        /\ \A k, l \in DOMAIN TopHosts(n) :
               (k < l /\ TopHosts(n)[k].listing_count = TopHosts(n)[l].listing_count)
                   => FirstRow(TopHosts(n)[k].host_id) < FirstRow(TopHosts(n)[l].host_id)

\* C17, amended: hosts with equal counts appear in ascending order of host_id
C17_TopHostsTiesByHostId ==
    Loaded => \A n \in RankNs :
        /\ TopHostsRanked(n)
        /\ \A k, l \in DOMAIN TopHosts(n) :
               (k < l /\ TopHosts(n)[k].listing_count = TopHosts(n)[l].listing_count)
                   => TopHosts(n)[k].host_id < TopHosts(n)[l].host_id

\* get_top_hosts returned a host with two listings before a host with one whose row
\* comes first in the view
C17_Witness ==
    /\ last = "get_top_hosts"
    /\ Loaded
    /\ Len(ViewRows) = 3
    /\ Len(ret.rows) = 2
    /\ ret.rows[1].listing_count = 2
    /\ ret.rows[2].listing_count = 1
    /\ ViewRows[1].host_id = ret.rows[2].host_id

\* the rows get_top_value_listings(n) returns in the current state
TopValue(n) == get_top_value_listings(Self, n).ret.rows

\* the view rows of practical stays, and the place in the view of the row labelled idx
Eligible == SelectSeq(ViewRows, LAMBDA r : r.minimum_nights <= 7)
ViewPlace(idx) == CHOOSE i \in DOMAIN ViewRows : ViewRows[i].idx = idx

\* reviews per dollar of two rows compared: a's is less than b's, a's equals b's
ScoreLess(a, b) ==
    a.number_of_reviews * (b.price[1] + 1) < b.number_of_reviews * (a.price[1] + 1)
ScoreEqual(a, b) ==
    a.number_of_reviews * (b.price[1] + 1) = b.number_of_reviews * (a.price[1] + 1)

\* C18: get_top_value_listings(n) returns min(n, eligible) view rows with
\* minimum_nights <= 7 (none when the view has none), each with value_score
\* number_of_reviews / (price + 1), in non-increasing order of that score with equal
\* scores in view order, and no eligible row left out scores more than a row returned
C18_TopValueListings ==
    Loaded => \A n \in RankNs :
        LET res == TopValue(n)
        IN  /\ Len(res) = Min(n, Len(Eligible))
            /\ \A k \in DOMAIN res :
                   LET r == ViewRows[ViewPlace(res[k].idx)]
                   IN  /\ \E i \in DOMAIN ViewRows : ViewRows[i].idx = res[k].idx
                       /\ r.minimum_nights <= 7
                       /\ res[k].minimum_nights = r.minimum_nights
                       /\ res[k].price = r.price
                       /\ res[k].number_of_reviews = r.number_of_reviews
                       /\ res[k].name = r.name
                       /\ res[k].value_score.num * (r.price[1] + 1)
                              = r.number_of_reviews * res[k].value_score.den
            /\ \A k, l \in DOMAIN res :
                   k < l => /\ ~ScoreLess(res[k], res[l])
                            /\ ScoreEqual(res[k], res[l])
                                   => ViewPlace(res[k].idx) < ViewPlace(res[l].idx)
            /\ \A i \in DOMAIN Eligible :
                   (\A k \in DOMAIN res : res[k].idx # Eligible[i].idx)
                       => \A k \in DOMAIN res : ~ScoreLess(res[k], Eligible[i])

\* two rows with the same score came back in view order, with a score that is not the
\* load-time one, from a view that also holds a stay of thirty nights
C18_Witness ==
    /\ last = "get_top_value_listings"
    /\ Loaded
    /\ Len(ViewRows) = 3
    /\ Len(Eligible) = 2
    /\ Len(ret.rows) = 2
    /\ ScoreEqual(ret.rows[1], ret.rows[2])
    /\ ret.rows[1].price # ret.rows[2].price
    /\ ret.rows[1].value_score # ViewRows[ViewPlace(ret.rows[1].idx)].value_score

\* the rows get_roi_data(top_n) returns in the current state
Roi(top_n) == get_roi_data(Self, top_n).ret.rows

\* the segments of the view, and the values of a column over the rows of a segment
ViewSegments == {<<ViewRows[i].neighbourhood_group, ViewRows[i].room_type>> : i \in DOMAIN ViewRows}
SegmentRows(pair) ==
    {i \in DOMAIN ViewRows :
        <<ViewRows[i].neighbourhood_group, ViewRows[i].room_type>> = pair}

\* m (a fraction) is the median of f over the rows I: the value of a middle row when
\* their number is odd, the mean of the two middle values when it is even; a row is
\* the k-th when fewer than k rows come before it in the order of (value, place)
IsMedian(m, I, f(_)) ==
    LET before(i) == Cardinality({j \in I : f(j) < f(i) \/ (f(j) = f(i) /\ j < i)})
        kth(k) == f(CHOOSE i \in I : before(i) = k - 1)
        n == Cardinality(I)
    IN  IF n % 2 = 1
        THEN m.num = kth((n + 1) \div 2) * m.den
        ELSE 2 * m.num = (kth(n \div 2) + kth(n \div 2 + 1)) * m.den

\* C19: get_roi_data(top_n) returns min(top_n, segments) records, one per
\* (neighbourhood_group, room_type) pair of the view, each with the medians of price,
\* availability_365 and number_of_reviews over the rows of the pair and with
\* revenue = median price * median availability * 0.7, in non-increasing order of
\* revenue, no segment left out having more revenue than a segment returned
C19_RoiBySegment ==
    Loaded => \A top_n \in RankNs :
        LET res == Roi(top_n)
            pair(k) == <<res[k].neighbourhood_group, res[k].room_type>>
            all == Roi(Cardinality(ViewSegments))
        IN  /\ Len(res) = Min(top_n, Cardinality(ViewSegments))
            /\ \A k \in DOMAIN res :
                   /\ pair(k) \in ViewSegments
                   /\ IsMedian(res[k].price[1], SegmentRows(pair(k)),
                               LAMBDA i : ViewRows[i].price[1])
                   /\ IsMedian(res[k].availability_365[1], SegmentRows(pair(k)),
                               LAMBDA i : ViewRows[i].availability_365)
                   /\ IsMedian(res[k].number_of_reviews[1], SegmentRows(pair(k)),
                               LAMBDA i : ViewRows[i].number_of_reviews)
                   /\ res[k].estimated_annual_revenue.num
                          * (res[k].price[1].den * res[k].availability_365[1].den * 10)
                      = res[k].price[1].num * res[k].availability_365[1].num * 7
                          * res[k].estimated_annual_revenue.den
            /\ \A k, l \in DOMAIN res :
                   k < l => /\ pair(k) # pair(l)
                            /\ ~frac_lt(res[k].estimated_annual_revenue,
                                        res[l].estimated_annual_revenue)
            /\ {<<all[k].neighbourhood_group, all[k].room_type>> : k \in DOMAIN all}
                   = ViewSegments
            /\ \A k \in DOMAIN res : \A l \in DOMAIN all :
                   l > Len(res) => ~frac_lt(res[k].estimated_annual_revenue,
                                            all[l].estimated_annual_revenue)

\* get_roi_data returned two segments of a three-row view, the first of them with two
\* rows and the median of their prices
C19_Witness ==
    /\ last = "get_roi_data"
    /\ Loaded
    /\ Len(ViewRows) = 3
    /\ Len(ret.rows) = 2
    /\ Cardinality(SegmentRows(<<ret.rows[2].neighbourhood_group, ret.rows[2].room_type>>)) = 2
    /\ ret.rows[2].price = Cell(Frac(361, 2))
    /\ frac_lt(ret.rows[2].estimated_annual_revenue, ret.rows[1].estimated_annual_revenue)

\* the value the view holds in column c, with its kind
Held(c, v) ==
    LET cell == as_cell(c, v)
    IN  IF isnull(cell) THEN Missing
        ELSE IF c \in TextColumns THEN Text(cell[1]) ELSE Number(cell[1])

\* the export columns the view has, in the export's order
ViewExportColumns == SelectSeq(ExportColumns, LAMBDA c : c \in columns)

Exported == last = "export_to_csv" /\ Loaded

\* the exported file has the view's export columns as its header and one row per
\* listing of the view
ExportShape ==
    /\ ret.kind = "csv"
    /\ ret.header = ViewExportColumns
    /\ Len(ret.rows) = Len(ViewRows)

\* row i of the file, read back, holds in column j what the view's row i holds
ReadsBack(i, j) ==
    read_exported(ret)[i][j] = Held(ViewExportColumns[j], ViewRows[i][ViewExportColumns[j]])

\* a text column of the view all of whose exported values are numerals
NumeralText(j) ==
    /\ ViewExportColumns[j] \in TextColumns
    /\ \A i \in DOMAIN ViewRows :
           LET held == Held(ViewExportColumns[j], ViewRows[i][ViewExportColumns[j]])
           IN  held.dtype = "str" => is_numeral(held.str)
    /\ \E i \in DOMAIN ViewRows :
           Held(ViewExportColumns[j], ViewRows[i][ViewExportColumns[j]]).dtype = "str"

\* C20: export_to_csv writes the rows of the current filtered view (the retained view
\* after an apply that matched nothing), one row per listing in the view's order, with
\* those of the eight export columns that the view has, and reading the file back gives
\* for every row and exported column exactly the value the view holds
C20_ExportReadsBackAsTheView ==
    Exported =>
        /\ ExportShape
        /\ \A i \in DOMAIN ViewRows : \A j \in DOMAIN ViewExportColumns : ReadsBack(i, j)

\* the export's shape is as C20 says, and a value reads back as the view holds it
\* unless its column is text of which the view holds numerals only
ExportReadsBackButNumeralText ==
    Exported =>
        /\ ExportShape
        /\ \A i \in DOMAIN ViewRows : \A j \in DOMAIN ViewExportColumns :
               ReadsBack(i, j) \/ NumeralText(j)

\* an export of a retained view, of a view without a column of the export, and of a
\* view whose only listing has a numeral for its name
ExportOfRetainedView ==
    /\ Exported
    /\ ViewRows # <<>>
    /\ ~(\A i \in DOMAIN ViewRows : Retained(ViewRows[i], _filters))
ExportWithoutAColumn ==
    /\ Exported
    /\ ViewRows # <<>>
    /\ Len(ViewExportColumns) < Len(ExportColumns)
ExportOfNumeralName ==
    /\ Exported
    /\ Len(ViewRows) = 1
    /\ ViewRows[1].name = Cell("101")

\* the names get_neighbourhoods_for_borough(b) returns in the current state
Neighbourhoods(b) == get_neighbourhoods_for_borough(Self, b).ret.items

\* the boroughs an argument selects: every borough for 'all', None and the empty list,
\* the one borough of a string, the boroughs of a list
AllBoroughs == {BoroughOrder[k] : k \in DOMAIN BoroughOrder}
Selected(b) ==
    IF b \in {Str("all"), NoneArg, List({})} THEN AllBoroughs
    ELSE IF b.type = "str" THEN {b.str} ELSE b.list

\* the neighbourhood names of the rows of the selected boroughs
NamesOf(rows, b) ==
    {rows[i].neighbourhood : i \in {j \in DOMAIN rows : rows[j].neighbourhood_group \in Selected(b)}}

\* string order of two neighbourhood names
NameBefore(a, b) ==
    \E k, l \in DOMAIN NeighbourhoodOrder :
        k < l /\ NeighbourhoodOrder[k] = a /\ NeighbourhoodOrder[l] = b

\* the names returned are those of `rows`, each once, in ascending order
SortedNamesOf(rows, b) ==
    LET res == Neighbourhoods(b)
    IN  /\ {res[k] : k \in DOMAIN res} = NamesOf(rows, b)
        /\ \A k, l \in DOMAIN res : k < l => NameBefore(res[k], res[l])

\* C21 as claimed: the names are those of the rows of the filtered view
C21_AsClaimed == Loaded => \A b \in BoroughArgs : SortedNamesOf(ViewRows, b)

\* C21, amended: get_neighbourhoods_for_borough(B) returns the distinct neighbourhood
\* names of the rows of the base dataset whose neighbourhood_group is in B, each once,
\* in ascending order; every name for B empty, None or 'all'; a string is the set of
\* that one borough
C21_NeighbourhoodsOfBase == Loaded => \A b \in BoroughArgs : SortedNamesOf(BaseRows, b)

\* the query returned two names in an order that is not the rows' order, one of them
\* of a listing that the view does not hold
C21_Witness ==
    /\ last = "get_neighbourhoods_for_borough"
    /\ Loaded
    /\ Len(BaseRows) = 2
    /\ Len(ViewRows) = 1
    /\ ret.items = <<BaseRows[2].neighbourhood, BaseRows[1].neighbourhood>>
    /\ ViewRows[1].neighbourhood = ret.items[2]

\* the dict get_missing_data_stats returns in the current state
MissingStats == get_missing_data_stats(Self).ret.items

\* the key columns the view has, and the number of null cells of one in the view
ViewKeyColumns == {KeyColumns[j] : j \in DOMAIN KeyColumns} \cap columns
Nulls(c) == Cardinality({i \in DOMAIN ViewRows : ViewRows[i][c] = NaN})

\* C22 as claimed: an entry for every key column the view has, with the exact
\* percentage
C22_AsClaimed ==
    Loaded =>
        /\ DOMAIN MissingStats = ViewKeyColumns
        /\ \A c \in ViewKeyColumns :
               /\ MissingStats[c].count = Nulls(c)
               /\ MissingStats[c].percentage[1].num * Len(ViewRows)
                      = Nulls(c) * 100 * MissingStats[c].percentage[1].den

\* C22, amended: get_missing_data_stats has an entry for exactly the key columns of
\* the view that hold a null; its count is the number of nulls of the column in the
\* view and its percentage is count / rows * 100 to one decimal
C22_MissingDataStats ==
    Loaded =>
        /\ DOMAIN MissingStats = {c \in ViewKeyColumns : Nulls(c) > 0}
        /\ \A c \in DOMAIN MissingStats :
               LET p == MissingStats[c].percentage[1]
                   d == p.num * Len(ViewRows) - Nulls(c) * 1000
               IN  /\ MissingStats[c].count = Nulls(c)
                   /\ p.den = 10
                   /\ 2 * d <= Len(ViewRows)
                   /\ -2 * d <= Len(ViewRows)

\* the query ran on a view of three listings of which one has no name: its entry
\* says 33.3 percent, and there is no entry for host_name, which is never null
C22_Witness ==
    /\ last = "get_missing_data_stats"
    /\ Loaded
    /\ Len(ViewRows) = 3
    /\ "name" \in DOMAIN ret.items
    /\ ret.items["name"] = [count |-> 1, percentage |-> Cell(Frac(333, 10))]
    /\ "host_name" \in columns
    /\ "host_name" \notin DOMAIN ret.items

\* the query ran on a view that has no name column
C22_WithoutAKeyColumn ==
    /\ last = "get_missing_data_stats"
    /\ Loaded
    /\ "name" \notin columns
    /\ ViewRows # BaseRows
    /\ DOMAIN ret.items = {"last_review", "reviews_per_month"}

\* the bucket of a listing count: (0,1] Single, (1,5] Small, (5,10] Medium, (10,inf)
\* Mega, and no bucket below
Bucket(x) ==
    IF x <= 0 THEN NaN
    ELSE IF x <= 1 THEN Cell("Single (1)")
    ELSE IF x <= 5 THEN Cell("Small (2-5)")
    ELSE IF x <= 10 THEN Cell("Medium (6-10)")
    ELSE Cell("Mega (10+)")

\* the base rows of the host of row i
RowsOfHost(i) == {j \in DOMAIN BaseRows : BaseRows[j].host_id = BaseRows[i].host_id}

\* the two host columns of every base row
HostColumns ==
    \A i \in DOMAIN BaseRows :
        /\ BaseRows[i].host_listing_count = Cardinality(RowsOfHost(i))
        /\ BaseRows[i].host_size = Bucket(BaseRows[i].host_listing_count)
        /\ BaseRows[i].host_category = Bucket(BaseRows[i].calculated_host_listings_count)

\* the base rows that pass the other clauses of the applied dict and are of its host
\* category
OfHostCategory ==
    SelectSeq(Matching(BaseRows, With(_filters, "host_category", "all")),
              LAMBDA r : r.host_category = Cell(_filters["host_category"]))

\* an applied host filter selects by host_category
HostFilterByCategory ==
    (/\ last = "apply_filters"
     /\ "host_category" \in DOMAIN _filters
     /\ _filters["host_category"] \notin {"all", "", None}
     /\ OfHostCategory # <<>>) => ViewRows = OfHostCategory

\* get_host_category_stats counts the view rows of each host_category
HostStatsByCategory ==
    \A observed \in BOOLEAN :
        LET res == get_host_category_stats(Self, observed).ret.rows
            of(label) == {i \in DOMAIN ViewRows : ViewRows[i].host_category = Cell(label)}
        IN  /\ \A k \in DOMAIN res : res[k].count = Cardinality(of(res[k].host_category))
            /\ \A j \in DOMAIN HostLabels :
                   of(HostLabels[j]) # {}
                       => \E k \in DOMAIN res : res[k].host_category = HostLabels[j]

\* C23: in a loaded dataset host_listing_count is the number of surviving rows of the
\* row's host, host_size its bucket and host_category the bucket of the row's own
\* calculated_host_listings_count; the host filter and get_host_category_stats go by
\* host_category
C23_HostSizeAndCategory ==
    Loaded => (HostColumns /\ HostFilterByCategory /\ HostStatsByCategory)

\* the host filter kept a listing whose host_size is another bucket than its
\* host_category, its host having lost a row to cleaning
C23_Witness ==
    /\ last = "apply_filters"
    /\ Loaded
    /\ Len(MainFile.rows) = 2
    /\ MainFile.rows[1].host_id = MainFile.rows[2].host_id
    /\ Len(BaseRows) = 1
    /\ _filters = With(WideSpec, "host_category", "Small (2-5)")
    /\ ViewRows = BaseRows
    /\ ViewRows[1].host_listing_count = 1
    /\ ViewRows[1].host_size = Cell("Single (1)")
    /\ ViewRows[1].host_category = Cell("Small (2-5)")

\* the host filter dropped a listing of the same host_size, and the host query
\* counted by category
C23_FilterDropsSameSize ==
    /\ last = "get_host_category_stats"
    /\ Loaded
    /\ Len(BaseRows) = 2
    /\ BaseRows[1].host_size = BaseRows[2].host_size
    /\ Len(ViewRows) = 1
    /\ ViewRows[1].host_category = Cell("Mega (10+)")
    /\ \E k \in DOMAIN ret.rows :
           ret.rows[k] = [host_category |-> "Mega (10+)", count |-> 1]

\* C28 as claimed: after any edits of the spin boxes, drags of the handles and
\* set_values calls, the boxes are in range and in order and the handles of the slider
\* agree with them
C28_SliderAgreesWithBoxes ==
    /\ PriceFilterMin <= panel.price_filter.min_input
    /\ panel.price_filter.min_input <= panel.price_filter.max_input
    /\ panel.price_filter.max_input <= PriceFilterMax
    /\ panel.price_filter.low = panel.price_filter.min_input
    /\ panel.price_filter.high = panel.price_filter.max_input

\* the part of C28 that holds: the boxes and the handles are each in range and in order
BoxesAndHandlesInOrder ==
    /\ PriceFilterMin <= panel.price_filter.min_input
    /\ panel.price_filter.min_input <= panel.price_filter.max_input
    /\ panel.price_filter.max_input <= PriceFilterMax
    /\ PriceFilterMin <= panel.price_filter.low
    /\ panel.price_filter.low <= panel.price_filter.high
    /\ panel.price_filter.high <= PriceFilterMax

\* the default spec C27 names
DefaultFilters ==
    [neighbourhood_group |-> {"Manhattan", "Brooklyn", "Queens", "Bronx", "Staten Island"},
     neighbourhood |-> "all",
     room_type |-> {"Entire home/apt", "Private room", "Shared room"},
     price_range |-> <<100, 150>>,
     min_nights |-> 30,
     min_reviews |-> 0,
     host_category |-> "all",
     commercial_only |-> FALSE]

\* C27 as claimed: after reset_filters, from any state of the controls, get_filters()
\* returns the default spec, and the filters_changed payload of the reset is that spec
C27_ResetGivesDefaults ==
    [][ClickReset => /\ get_filters(panel') = DefaultFilters
                     /\ emitted'[Len(emitted')].signal = "filters_changed"
                     /\ emitted'[Len(emitted')].arg = DefaultFilters]_vars

\* the part of C27 that holds: the reset emits what get_filters() then returns, which
\* is the default spec but for its price range, whose maximum is 150
ResetGivesDefaultsButMinimumPrice ==
    [][ClickReset => /\ emitted'[Len(emitted')].signal = "filters_changed"
                     /\ emitted'[Len(emitted')].arg = get_filters(panel')
                     /\ get_filters(panel').price_range[2] = 150
                     /\ [get_filters(panel') EXCEPT !.price_range = <<100, 150>>]
                            = DefaultFilters]_vars

\* the debounce timer timed out
TimedOut == timer = 1 /\ timer' = 0

\* C24 as claimed: each change of a control restarts the timer, and a burst of changes
\* gets one filters_changed emission, from the timer, 300 ms after its last change and
\* no sooner, whose payload is get_filters() at that time
C24_ChangesAreDebounced ==
    [][/\ get_filters(panel') # get_filters(panel) => timer' = Interval
       /\ TimedOut => quiet' = Interval
       /\ quiet = Interval - 1 /\ quiet' = Interval
            => /\ TimedOut
               /\ emitted' = <<[signal |-> "filters_changed", arg |-> get_filters(panel')]>>]_vars

\* the part of C24 that holds: a change that is not one of the reviews or the nights
\* restarts the timer, and when the timer times out it emits filters_changed once,
\* with get_filters() of that time
ConnectedChangesAreDebounced ==
    [][/\ (/\ get_filters(panel') # get_filters(panel)
           /\ panel'.reviews_input = panel.reviews_input
           /\ panel'.reviews_slider = panel.reviews_slider
           /\ panel'.nights_input = panel.nights_input
           /\ panel'.nights_slider = panel.nights_slider) => timer' = Interval
       /\ TimedOut
            => emitted' = <<[signal |-> "filters_changed", arg |-> get_filters(panel')]>>]_vars

\* C29 as claimed, in its finite form: no change of a control is left without a
\* filters_changed emission that reflects it once the debounce timer is inactive
C29_EveryChangeIsEmitted == timer = 0 => ~unreported

\* the part of C29 that holds: a change of the filters that is not one of the reviews
\* or the nights leaves the timer running or is emitted at once
ConnectedChangesAreEmitted ==
    [][(/\ get_filters(panel') # get_filters(panel)
        /\ panel'.reviews_input = panel.reviews_input
        /\ panel'.nights_input = panel.nights_input)
           => timer' = Interval \/ ~unreported']_vars

\* C30 as claimed, in its finite form: once the single-shot timers of the window have
\* all fired, the loading overlay is hidden
C30_OverlayIsHidden == pending = <<>> => ~overlay

\* the part of C30 that holds: with a dataset loaded, the overlay is hidden once the
\* timers have all fired
OverlayIsHiddenOnceLoaded == Loaded /\ pending = <<>> => ~overlay

\* C25: once a load has published a base dataset with at least one row, the filtered
\* view has at least one row whatever filters are applied; it is empty only when the
\* base dataset is
C25_ViewIsNeverEmptied == Loaded /\ BaseRows # <<>> => ViewRows # <<>>

\* an apply that matched no row of a base dataset with rows, after one that narrowed
\* the view
C25_Witness ==
    /\ Loaded
    /\ last = "apply_filters"
    /\ signals = <<"filters_resulted_empty">>
    /\ ViewRows # <<>>
    /\ Len(ViewRows) < Len(BaseRows)

\* the frame a complete load of the file at `path` gives
LoadedFrom(path) == process_dataframe(read_csv(disk[path]).file)

\* every loader has finished and its finished signal has reached _on_data_loaded
AllLoadsDelivered ==
    /\ events = <<>>
    /\ \A i \in DOMAIN loaders : loaders[i].pc = "Done" /\ loaders[i].delivered # <<>>

\* C26 as claimed: load_data called a second time before the first load has finished,
\* once both loaders have finished the base dataset and the view are those of the load
\* requested last, whatever order the loaders finish in
C26_LastRequestWins ==
    Len(loaders) >= 2 /\ AllLoadsDelivered =>
        /\ BaseRows = LoadedFrom(loaders[Len(loaders)].file_path).frame.rows
        /\ ViewRows = LoadedFrom(loaders[Len(loaders)].file_path).frame.rows

\* the part of C26 that holds: once both loaders have finished, the base dataset and
\* the view are one object, holding the load of one of the files requested
SomeRequestWins ==
    Len(loaders) >= 2 /\ AllLoadsDelivered =>
        /\ filtered_df = df
        /\ \E i \in DOMAIN loaders : BaseRows = LoadedFrom(loaders[i].file_path).frame.rows

\* C14: a load_data_sync call either sets the base dataset and the view to the one
\* object holding the whole cleaned file and emits data_loaded once, or raises, leaves
\* the base dataset and the view as they were and emits nothing
C14_LoadSyncSucceedsOrLeavesStateAlone ==
    [][\A path \in Paths : (last' = "load_data_sync" /\ LoadDataSync(path)) =>
          IF raised'
          THEN /\ BaseValue' = BaseValue
               /\ ViewValue' = ViewValue
               /\ columns' = columns
               /\ signals' = <<>>
          ELSE /\ signals' = <<"data_loaded">>
               /\ df' # None
               /\ filtered_df' = df'
               /\ ~read_csv(disk[path]).raised
               /\ LoadedFrom(path) = [raised |-> FALSE,
                                      frame |-> Frame(columns', heap'[df'])]]_vars

\* the load of an unreadable file raised and the filtered view of the earlier load is
\* still there
C14_Witness ==
    /\ last = "load_data_sync"
    /\ raised
    /\ Loaded
    /\ filtered_df # df
    /\ Len(ViewRows) < Len(BaseRows)

\* the pair (df, filtered_df) at a point where a handler can run
ConsistentPair ==
    /\ df = None <=> filtered_df = None
    /\ Loaded =>
           /\ \A i \in DOMAIN ViewRows : \E j \in DOMAIN BaseRows : BaseRows[j] = ViewRows[i]
           /\ \E path \in Paths : ~LoadedFrom(path).raised /\ LoadedFrom(path).frame = Frame(columns, BaseRows)

\* C10: wherever a query, an export or apply_filters can run, the view's rows are rows
\* of the current base dataset, which is a completely loaded file; and a step that
\* changes the base dataset makes the view that same new dataset
C10_LoadPublishesBothAtOnce ==
    /\ []ConsistentPair
    /\ [][BaseValue' # BaseValue => filtered_df' = df' /\ last' \in Loads]_vars

\* a background load of another file was delivered over a filtered view of the first
C10_Witness ==
    /\ last = "_on_data_loaded"
    /\ _filters = With(WideSpec, "neighbourhood_group", {"Manhattan"})
    /\ filtered_df = df
    /\ BaseRows = LoadedFrom("other_csv").frame.rows
    /\ BaseRows # LoadedFrom("AB_NYC_2019_csv").frame.rows

====
